---- MODULE Spec2Model ----
(***************************************************************************)
(* A model of api-docs-agent's schema-resolution and rendering core        *)
(* (src/app/api_reference.py).                                             *)
(*                                                                         *)
(* Representation.  A Python str is a sequence of one-character strings    *)
(* (a "Text"), so that startswith, split, lower, strip, replace and        *)
(* html.escape are computed character by character.  A Python dict is a    *)
(* record whose DOMAIN is the set of keys that are present; the empty dict *)
(* is the empty function <<>>.  An ordered dict whose order shows in the   *)
(* output (properties) is a sequence of [name, schema] entries.  None is   *)
(* the record Null, and an uncaught RecursionError is the record           *)
(* RecursionError, which every caller propagates.                          *)
(***************************************************************************)
EXTENDS Integers, Sequences, FiniteSets, TLC

VARIABLES doc, call, out

vars == <<doc, call, out>>

(***************************************************************************)
(* Bounds of the model.                                                    *)
(***************************************************************************)
\* CPython raises RecursionError when the call depth passes the interpreter's
\* recursion limit; the model scales that limit down.  It is larger than the
\* deepest call chain of any acyclic document the model enumerates.
RecursionLimit == 12

(***************************************************************************)
(* Text helpers.                                                           *)
(***************************************************************************)
Null == [null |-> TRUE]

RecursionError == [error |-> "RecursionError"]

EmptyDict == <<>>

IsError(v) == DOMAIN v = {"error"}

IsNull(v) == DOMAIN v = {"null"}

\* Python truthiness of a value that is None or a dict.
Truthy(v) == ~IsNull(v) /\ DOMAIN v # {}

HasKey(d, k) == k \in DOMAIN d

\* d.get(k) for a key whose value is a str: None and "" are both falsy and
\* every use in the source tests truthiness first, so both read as <<>>.
GetText(d, k) == IF k \in DOMAIN d THEN d[k] ELSE <<>>

\* d.get(k) or [] for a key whose value is a list.
GetList(d, k) == IF k \in DOMAIN d THEN d[k] ELSE <<>>

SetMax(S) == CHOOSE m \in S : \A n \in S : n <= m

StartsWith(s, p) == Len(s) >= Len(p) /\ SubSeq(s, 1, Len(p)) = p

\* s.split("/")[-1]
LastSegment(s) ==
    LET slashes == {i \in 1..Len(s) : s[i] = "/"}
    IN  IF slashes = {} THEN s ELSE SubSeq(s, SetMax(slashes) + 1, Len(s))

PrefixComponents ==
    <<"#", "/", "c", "o", "m", "p", "o", "n", "e", "n", "t", "s", "/",
      "s", "c", "h", "e", "m", "a", "s", "/">>

PrefixDefinitions ==
    <<"#", "/", "d", "e", "f", "i", "n", "i", "t", "i", "o", "n", "s", "/">>

T_object == <<"o", "b", "j", "e", "c", "t">>

T_array == <<"a", "r", "r", "a", "y">>

T_string == <<"s", "t", "r", "i", "n", "g">>

T_any == <<"a", "n", "y">>

T_array_of == <<"a", "r", "r", "a", "y", " ", "o", "f", " ">>

(***************************************************************************)
(* Schema Resolver.                                                        *)
(***************************************************************************)
\* The document's two schema tables: doc.schemas is components.schemas and
\* doc.definitions is definitions, each a function from the names present.
GetSchemaByName(openapi_schema, name) ==
    IF name \in DOMAIN openapi_schema.schemas
    THEN openapi_schema.schemas[name]
    ELSE IF name \in DOMAIN openapi_schema.definitions
         THEN openapi_schema.definitions[name]
         ELSE Null

ResolveRef(schema, openapi_schema) ==
    IF ~Truthy(schema) THEN schema
    ELSE LET ref == GetText(schema, "ref")
         IN  IF ref = <<>> THEN schema
             ELSE IF StartsWith(ref, PrefixComponents)
                  THEN GetSchemaByName(openapi_schema, LastSegment(ref))
                  ELSE IF StartsWith(ref, PrefixDefinitions)
                       THEN GetSchemaByName(openapi_schema, LastSegment(ref))
                       ELSE schema

\* dict.update on an ordered dict: an existing key keeps its position and takes
\* the new value, a new key is appended.
\* Mutant of DictSet: an existing key keeps its earlier value.
DictSetKeepFirst(d, e) ==
    IF \E i \in 1..Len(d) : d[i].name = e.name THEN d ELSE Append(d, e)

DictSet(d, e) ==
    IF \E i \in 1..Len(d) : d[i].name = e.name
    THEN [i \in 1..Len(d) |-> IF d[i].name = e.name THEN e ELSE d[i]]
    ELSE Append(d, e)

RECURSIVE DictUpdate(_, _)
DictUpdate(d, u) ==
    IF u = <<>> THEN d ELSE DictUpdate(DictSet(d, Head(u)), Tail(u))

RECURSIVE ResolveSchema(_, _, _)
RECURSIVE MergeAllOf(_, _, _, _, _)

\* One round of the loop of _resolve_schema: branch i resolved to part_resolved.
MergePart(all_of, openapi_schema, depth, i, merged, part_resolved) ==
    IF IsError(part_resolved) THEN part_resolved
    ELSE IF IsNull(part_resolved)
         THEN MergeAllOf(all_of, openapi_schema, depth, i + 1, merged)
         ELSE MergeAllOf(all_of, openapi_schema, depth, i + 1,
                [merged EXCEPT
                   !.required = @ \o GetList(part_resolved, "required"),
                   !.properties =
                       DictUpdate(@, GetList(part_resolved, "properties"))])

\* The loop of _resolve_schema over all_of, from branch i on, with the merged
\* node built so far.
MergeAllOf(all_of, openapi_schema, depth, i, merged) ==
    IF i > Len(all_of) THEN merged
    ELSE MergePart(all_of, openapi_schema, depth, i, merged,
                   ResolveSchema(all_of[i], openapi_schema, depth + 1))

\* _resolve_schema(resolved, openapi_schema) if resolved else resolved
ResolveTarget(resolved, openapi_schema, depth) ==
    IF Truthy(resolved) THEN ResolveSchema(resolved, openapi_schema, depth + 1)
    ELSE resolved

\* depth is the number of _resolve_schema frames below this call.
ResolveSchema(schema, openapi_schema, depth) ==
    IF depth >= RecursionLimit THEN RecursionError
    ELSE IF ~Truthy(schema) THEN schema
    ELSE IF GetText(schema, "ref") # <<>>
         THEN ResolveTarget(ResolveRef(schema, openapi_schema), openapi_schema, depth)
         ELSE IF HasKey(schema, "allOf")
              THEN MergeAllOf(schema.allOf, openapi_schema, depth, 1,
                     [type |-> T_object, properties |-> <<>>, required |-> <<>>])
              ELSE schema

(***************************************************************************)
(* Type labels and the data projection of a schema.                        *)
(***************************************************************************)
RECURSIVE SchemaTypeStr(_)
SchemaTypeStr(schema) ==
    IF ~Truthy(schema) THEN T_any
    ELSE IF GetText(schema, "ref") # <<>> THEN LastSegment(schema.ref)
    ELSE LET typ == GetText(schema, "type")
         IN  IF typ = T_array
             THEN LET items == IF HasKey(schema, "items") THEN schema.items ELSE EmptyDict
                  IN  IF GetText(items, "ref") # <<>>
                      THEN T_array_of \o LastSegment(items.ref)
                      ELSE T_array_of \o SchemaTypeStr(items)
             ELSE IF typ = T_object THEN T_object
             ELSE IF typ # <<>> THEN typ ELSE T_any

\* r or schema
OrSelf(r, schema) == IF IsError(r) \/ Truthy(r) THEN r ELSE schema

\* _resolve_schema(schema, openapi_schema) or schema
ResolveOrSelf(schema, openapi_schema, depth) ==
    OrSelf(ResolveSchema(schema, openapi_schema, depth), schema)

\* resolved.get("type") == "object" or resolved.get("properties")
IsObjectLike(resolved) ==
    GetText(resolved, "type") = T_object \/ GetList(resolved, "properties") # <<>>

\* set(resolved.get("required") or [])
RequiredSet(resolved) ==
    LET req == GetList(resolved, "required") IN {req[i] : i \in 1..Len(req)}

\* prop_resolved.get("description", "") if prop_resolved else ""
ResolvedDescription(prop_resolved) ==
    IF IsError(prop_resolved) THEN prop_resolved
    ELSE IF IsNull(prop_resolved) THEN [val |-> <<>>]
    ELSE [val |-> GetText(prop_resolved, "description")]

\* The description _schema_to_data gives one property (lines 246-250), as
\* [val |-> description], or RecursionError when resolving the property raises.
PropDescription(prop_schema, openapi_schema) ==
    IF GetText(prop_schema, "description") # <<>>
    THEN [val |-> prop_schema.description]
    ELSE ResolvedDescription(ResolveSchema(prop_schema, openapi_schema, 1))

\* The object projection of _schema_to_data, given its properties' descriptions.
ObjectData(resolved, descs) ==
    IF \E i \in 1..Len(descs) : IsError(descs[i])
    THEN RecursionError
    ELSE [type |-> T_object,
          properties |->
            [i \in 1..Len(descs) |->
               [name |-> resolved.properties[i].name,
                type |-> SchemaTypeStr(resolved.properties[i].schema),
                required |-> resolved.properties[i].name \in RequiredSet(resolved),
                description |-> descs[i].val]]]

\* _schema_to_data after schema is resolved.
DataOfResolved(schema, openapi_schema, resolved) ==
    IF IsError(resolved) THEN resolved
    ELSE IF IsObjectLike(resolved)
    THEN ObjectData(resolved,
                    [i \in 1..Len(GetList(resolved, "properties")) |->
                       PropDescription(resolved.properties[i].schema, openapi_schema)])
    ELSE IF GetText(schema, "ref") # <<>>
         THEN [type |-> LastSegment(schema.ref), ref |-> schema.ref]
         ELSE [type |-> IF HasKey(resolved, "type") THEN resolved.type ELSE T_any]

SchemaToData(schema, openapi_schema) ==
    IF ~Truthy(schema) THEN Null
    ELSE DataOfResolved(schema, openapi_schema, ResolveOrSelf(schema, openapi_schema, 1))

(***************************************************************************)
(* HTML rendering of a schema.  Generated markup is a sequence of items:   *)
(* [lit |-> s] is a piece of the template, [site |-> k, txt |-> t] is a    *)
(* string interpolated at place k, and [site |-> k, html |-> items] is     *)
(* generated markup interpolated at place k.  The page is the items'       *)
(* concatenation.  A renderer returns [html |-> items] or RecursionError.  *)
(***************************************************************************)
Lit(s) == [lit |-> s]

Txt(site, t) == [site |-> site, txt |-> t]

Sub(site, items) == [site |-> site, html |-> items]

\* html.escape(c) for one character (quote=True).
EscapeChar(c) ==
    CASE c = "&" -> <<"&", "a", "m", "p", ";">>
      [] c = "<" -> <<"&", "l", "t", ";">>
      [] c = ">" -> <<"&", "g", "t", ";">>
      [] c = "\"" -> <<"&", "q", "u", "o", "t", ";">>
      [] c = "'" -> <<"&", "#", "x", "2", "7", ";">>
      [] OTHER -> <<c>>

RECURSIVE Escape(_)
Escape(s) == IF s = <<>> THEN <<>> ELSE EscapeChar(Head(s)) \o Escape(Tail(s))

\* s.replace("\n", " ")
NlToSpace(s) == [i \in 1..Len(s) |-> IF s[i] = "\n" THEN " " ELSE s[i]]

RECURSIVE SchemaToHtml(_, _, _)
RECURSIVE RenderRows(_, _, _, _, _)

\* The table row of one property.
PropertyRow(prop_name, prop_schema, resolved, required_set) ==
    << Lit("<tr><td><code>"), Txt("prop_name", Escape(prop_name)),
       Lit("</code></td><td><code>"), Txt("prop_type", Escape(SchemaTypeStr(prop_schema))),
       Lit("</code></td><td>"),
       Lit(IF prop_name \in required_set THEN "required" ELSE "optional"),
       Lit("</td><td>"),
       Txt("prop_desc", Escape(NlToSpace(IF GetText(resolved, "description") # <<>>
                                         THEN resolved.description
                                         ELSE GetText(prop_schema, "description")))),
       Lit("</td></tr>") >>

\* The row of one property followed by its nested table and its items table.
RowWithNested(row, nested, items) ==
    IF IsError(nested) THEN nested
    ELSE IF IsError(items) THEN items
    ELSE [html |->
            row
            \o (IF nested.html = <<>> THEN <<>>
                ELSE << Lit("<tr><td colspan=\"4\" class=\"nested-schema\">"),
                        Sub("nested", nested.html), Lit("</td></tr>") >>)
            \o (IF items.html = <<>> THEN <<>>
                ELSE << Lit("<tr><td colspan=\"4\" class=\"nested-schema\">Items: "),
                        Sub("items", items.html), Lit("</td></tr>") >>)]

\* A round of the loop that expands the items of an array whether or not
\* they are a $ref.
RowsOfResolvedExpandingRefItems(prop_name, prop_schema, openapi_schema, required_set, depth, resolved) ==
    IF IsError(resolved) THEN resolved
    ELSE RowWithNested(
            PropertyRow(prop_name, prop_schema, resolved, required_set),
            IF GetText(resolved, "type") = T_object
               /\ GetList(resolved, "properties") # <<>>
            THEN SchemaToHtml(resolved, openapi_schema, depth + 1)
            ELSE [html |-> <<>>],
            IF GetText(prop_schema, "type") = T_array
               /\ HasKey(prop_schema, "items")
            THEN SchemaToHtml(prop_schema.items, openapi_schema, depth + 1)
            ELSE [html |-> <<>>])

\* One round of the loop of _render_schema_properties after the property is
\* resolved.
RowsOfResolved(prop_name, prop_schema, openapi_schema, required_set, depth, resolved) ==
    IF IsError(resolved) THEN resolved
    ELSE RowWithNested(
            PropertyRow(prop_name, prop_schema, resolved, required_set),
            IF GetText(resolved, "type") = T_object
               /\ GetList(resolved, "properties") # <<>>
            THEN SchemaToHtml(resolved, openapi_schema, depth + 1)
            ELSE [html |-> <<>>],
            IF GetText(prop_schema, "type") = T_array
               /\ HasKey(prop_schema, "items")
               /\ GetText(prop_schema.items, "ref") = <<>>
               /\ GetText(prop_schema.items, "type") = T_object
               /\ GetList(prop_schema.items, "properties") # <<>>
            THEN SchemaToHtml(prop_schema.items, openapi_schema, depth + 1)
            ELSE [html |-> <<>>])

\* The rows _render_schema_properties appends for one property.
PropertyRows(prop_name, prop_schema, openapi_schema, required_set, depth) ==
    RowsOfResolved(prop_name, prop_schema, openapi_schema, required_set, depth,
                   ResolveOrSelf(prop_schema, openapi_schema, depth + 1))

\* The rows of one property followed by the rows of the properties after it.
ConcatRows(first, rest) ==
    IF IsError(first) THEN first
    ELSE IF IsError(rest) THEN rest
    ELSE [html |-> first.html \o rest.html]

\* The loop of _render_schema_properties from property i on.
RenderRows(properties, openapi_schema, required_set, depth, i) ==
    IF i > Len(properties) THEN [html |-> <<>>]
    ELSE ConcatRows(PropertyRows(properties[i].name, properties[i].schema,
                                 openapi_schema, required_set, depth),
                    RenderRows(properties, openapi_schema, required_set, depth, i + 1))

RenderSchemaProperties(schema, openapi_schema, required_set, depth) ==
    IF depth >= RecursionLimit THEN RecursionError
    ELSE RenderRows(GetList(schema, "properties"), openapi_schema,
                    IF required_set # {} THEN required_set ELSE RequiredSet(schema),
                    depth, 1)

SchemaRefPlaceholder(name) ==
    << Lit("<p class=\"schema-ref\">Schema: <code>"), Txt("schema_name", Escape(name)),
       Lit("</code></p>") >>

\* The table of an object schema, or the placeholder when it has no rows.
TableOrPlaceholder(schema, rows) ==
    IF IsError(rows) THEN rows
    ELSE IF rows.html = <<>>
    THEN IF GetText(schema, "ref") # <<>>
         THEN [html |-> SchemaRefPlaceholder(LastSegment(schema.ref))]
         ELSE [html |-> <<>>]
    ELSE [html |->
            << Lit("<table class=\"schema-table\"><thead><tr><th>Field</th><th>Type</th><th>Required</th><th>Description</th></tr></thead><tbody>"),
               Sub("rows", rows.html), Lit("</tbody></table>") >>]

\* _schema_to_html after schema is resolved.
HtmlOfResolved(schema, openapi_schema, depth, resolved) ==
    IF IsError(resolved) THEN resolved
    ELSE IF IsObjectLike(resolved)
    THEN TableOrPlaceholder(schema,
                            RenderSchemaProperties(resolved, openapi_schema,
                                                   RequiredSet(resolved), depth + 1))
    ELSE IF GetText(schema, "ref") # <<>>
    THEN LET name == LastSegment(schema.ref)
             sub == GetSchemaByName(openapi_schema, name)
         IN  IF Truthy(sub)
             THEN SchemaToHtml(sub, openapi_schema, depth + 1)
             ELSE [html |-> SchemaRefPlaceholder(name)]
    ELSE [html |->
            << Lit("<p class=\"schema-type\">Type: <code>"),
               Txt("schema_type",
                   Escape(IF HasKey(schema, "type") THEN schema.type ELSE T_any)),
               Lit("</code></p>") >>]

SchemaToHtml(schema, openapi_schema, depth) ==
    IF depth >= RecursionLimit THEN RecursionError
    ELSE IF ~Truthy(schema) THEN [html |-> <<>>]
    ELSE HtmlOfResolved(schema, openapi_schema, depth,
                        ResolveOrSelf(schema, openapi_schema, depth + 1))

(***************************************************************************)
(* Characters.  A character outside ASCII is written by its code point:    *)
(* "U+00C9" is LATIN CAPITAL LETTER E WITH ACUTE, "U+00E9" its lowercase,  *)
(* and "U+2102" is DOUBLE-STRUCK CAPITAL C, an uppercase letter (category  *)
(* Lu, str.isupper) that str.lower leaves unchanged.                       *)
(***************************************************************************)
\* The printable ASCII characters in code-point order, from 32 (space) on;
\* GRAVE ACCENT, code point 96, is written "U+0060".
AsciiPrintable ==
    <<
      " ", "!", "\"", "#", "$", "%", "&", "'", "(", ")", "*", "+",
      ",", "-", ".", "/", "0", "1", "2", "3", "4", "5", "6", "7",
      "8", "9", ":", ";", "<", "=", ">", "?", "@", "A", "B", "C",
      "D", "E", "F", "G", "H", "I", "J", "K", "L", "M", "N", "O",
      "P", "Q", "R", "S", "T", "U", "V", "W", "X", "Y", "Z", "[",
      "\\", "]", "^", "_", "U+0060", "a", "b", "c", "d", "e", "f", "g",
      "h", "i", "j", "k", "l", "m", "n", "o", "p", "q", "r", "s",
      "t", "u", "v", "w", "x", "y", "z", "{", "|", "}", "~" >>

IndexIn(seq, c) == CHOOSE i \in 1..Len(seq) : seq[i] = c

IsAscii(c) == \E i \in 1..Len(AsciiPrintable) : AsciiPrintable[i] = c

\* ord(c): what sorted() compares strings by.
CodePoint(c) ==
    IF IsAscii(c) THEN IndexIn(AsciiPrintable, c) + 31
    ELSE IF c = "\n" THEN 10
    ELSE IF c = "U+00C9" THEN 201
    ELSE IF c = "U+00E9" THEN 233
    ELSE 8450

IsAsciiUpper(c) == IsAscii(c) /\ CodePoint(c) >= 65 /\ CodePoint(c) <= 90

IsAsciiLower(c) == IsAscii(c) /\ CodePoint(c) >= 97 /\ CodePoint(c) <= 122

IsAsciiDigit(c) == IsAscii(c) /\ CodePoint(c) >= 48 /\ CodePoint(c) <= 57

\* str.lower() of one character.
LowerChar(c) ==
    IF IsAsciiUpper(c) THEN AsciiPrintable[CodePoint(c) + 32 - 31]
    ELSE IF c = "U+00C9" THEN "U+00E9" ELSE c

\* str.upper() of one character.
UpperChar(c) ==
    IF IsAsciiLower(c) THEN AsciiPrintable[CodePoint(c) - 32 - 31]
    ELSE IF c = "U+00E9" THEN "U+00C9" ELSE c

\* c.isalnum()
IsAlnum(c) ==
    IsAsciiUpper(c) \/ IsAsciiLower(c) \/ IsAsciiDigit(c)
        \/ c \in {"U+00C9", "U+00E9", "U+2102"}

\* c.isupper()
IsUpper(c) == IsAsciiUpper(c) \/ c \in {"U+00C9", "U+2102"}

LowerText(s) == [i \in 1..Len(s) |-> LowerChar(s[i])]

UpperText(s) == [i \in 1..Len(s) |-> UpperChar(s[i])]

\* sub in s
Contains(s, sub) ==
    \E i \in 0..(Len(s) - Len(sub)) : SubSeq(s, i + 1, i + Len(sub)) = sub

\* s < t, as Python compares str: code point by code point, a proper prefix first.
TextLess(s, t) ==
    \/ Len(s) < Len(t) /\ SubSeq(t, 1, Len(s)) = s
    \/ \E i \in 1..Len(s) :
          /\ i <= Len(t)
          /\ SubSeq(s, 1, i - 1) = SubSeq(t, 1, i - 1)
          /\ CodePoint(s[i]) < CodePoint(t[i])

\* s.rstrip(c)
RStrip(s, c) ==
    LET keep == {i \in 1..Len(s) : s[i] # c}
    IN  IF keep = {} THEN <<>> ELSE SubSeq(s, 1, SetMax(keep))

\* s.strip(c)
Strip(s, c) ==
    LET keep == {i \in 1..Len(s) : s[i] # c}
    IN  IF keep = {} THEN <<>>
        ELSE SubSeq(s, CHOOSE i \in keep : \A j \in keep : i <= j, SetMax(keep))

Slug(s) ==
    LET low == LowerText(s)
    IN  Strip([i \in 1..Len(low) |->
                  IF IsAlnum(low[i]) \/ low[i] \in {"-", "_"} THEN low[i] ELSE "-"],
              "-")


(***************************************************************************)
(* The documents and schema nodes the schema specification enumerates.     *)
(***************************************************************************)
N_A == <<"A">>

N_B == <<"B">>

N_M == <<"M">>

N_p == <<"p">>

N_q == <<"q">>

RefC(name) == PrefixComponents \o name

RefD(name) == PrefixDefinitions \o name

\* A reference with neither prefix, such as "#/x/A".
RefOther(name) == <<"#", "/", "x", "/">> \o name

D_own == <<"o", "w", "n">>

D_A == <<"d", "A">>

D_B == <<"d", "B">>

D_M == <<"d", "M">>

Prop(name, schema) == [name |-> name, schema |-> schema]

Obj(props, req) == [type |-> T_object, properties |-> props, required |-> req]

WithDesc(node, d) == [k \in DOMAIN node \cup {"description"} |->
                        IF k = "description" THEN d ELSE node[k]]

PStr == [type |-> T_string]

PStrD == [type |-> T_string, description |-> D_own]

PRefA == [ref |-> RefC(N_A)]

PRefAD == [ref |-> RefC(N_A), description |-> D_own]

PRefB == [ref |-> RefC(N_B)]

PRefBD == [ref |-> RefC(N_B), description |-> D_own]

PArrRef == [type |-> T_array, items |-> [ref |-> RefC(N_B)]]

PArrObj == [type |-> T_array, items |-> Obj(<<Prop(N_q, PStr)>>, <<>>)]

PropSchemas == {PStr, PStrD, PRefA, PRefAD, PRefB, PRefBD, PArrRef, PArrObj}

\* Inline allOf branches.
BrX == Obj(<<Prop(N_p, PStr)>>, <<N_p>>)

BrY == Obj(<<Prop(N_q, PStr), Prop(N_p, PStrD)>>, <<N_q, N_p>>)

Branches == {BrX, BrY, [ref |-> RefC(N_A)], [ref |-> RefC(N_B)], [ref |-> RefC(N_M)]}

PropListsA ==
    {<<>>}
    \cup {<<Prop(N_p, s)>> : s \in PropSchemas}
    \cup {<<Prop(N_p, PStr), Prop(N_q, PStrD)>>, <<Prop(N_q, PRefBD), Prop(N_p, PRefB)>>,
          <<Prop(N_p, PArrRef), Prop(N_q, PArrObj)>>}

ObjectsA == {Obj(pl, rq) : pl \in PropListsA, rq \in {<<>>, <<N_p>>, <<N_q, N_p>>}}

\* What components.schemas may hold under the name A.
SchemasA ==
    ObjectsA
    \cup {WithDesc(o, D_A) : o \in ObjectsA}
    \cup {[type |-> T_string, description |-> D_A],
          [ref |-> RefC(N_A)], [ref |-> RefC(N_B)], [ref |-> RefOther(N_B)],
          [ref |-> RefD(N_M)],
          [allOf |-> <<BrX, [ref |-> RefC(N_B)]>>],
          [allOf |-> <<[ref |-> RefC(N_B)], BrY>>],
          [allOf |-> <<[ref |-> RefC(N_A)]>>],
          [allOf |-> <<BrX>>, properties |-> <<Prop(N_q, PStr)>>, required |-> <<N_q>>],
          [allOf |-> <<[ref |-> RefC(N_B)]>>, type |-> T_object,
           properties |-> <<Prop(N_p, PStrD)>>]}

\* What components.schemas may hold under the name B.
SchemasB ==
    {WithDesc(Obj(<<Prop(N_p, PStrD)>>, <<N_p>>), D_B),
     WithDesc(Obj(<<Prop(N_q, PStr), Prop(N_p, PStr)>>, <<N_q>>), D_B),
     Obj(<<Prop(N_p, PRefA)>>, <<>>),
     Obj(<<>>, <<>>),
     [type |-> T_string, description |-> D_B],
     [ref |-> RefC(N_A)],
     [allOf |-> <<[ref |-> RefC(N_A)], BrX>>]}

DefM == WithDesc(Obj(<<Prop(N_q, PStr)>>, <<N_q>>), D_M)

DefB == [type |-> T_string, description |-> D_M]

\* The definitions tables (Swagger 2), as functions from the names present.
DefinitionTables ==
    {<<>>, [n \in {N_M} |-> DefM], [n \in {N_B, N_M} |-> IF n = N_B THEN DefB ELSE DefM]}

SchemaTables ==
    {<<>>}
    \cup {[n \in {N_A} |-> a] : a \in SchemasA}
    \cup {[n \in {N_B} |-> b] : b \in SchemasB}
    \cup {[n \in {N_A, N_B} |-> IF n = N_A THEN ab[1] ELSE ab[2]] :
            ab \in SchemasA \X SchemasB}

SchemaDocs == {[schemas |-> t, definitions |-> d] : t \in SchemaTables, d \in DefinitionTables}

RefNodes ==
    {[ref |-> r] : r \in {RefC(N_A), RefC(N_B), RefC(N_M), RefD(N_A), RefD(N_B),
                          RefD(N_M), RefOther(N_A)}}

AllOfNodes ==
    {[allOf |-> <<t[1], t[2], t[3]>>] : t \in Branches \X Branches \X Branches}
    \cup {[allOf |-> <<t[1], t[2]>>] : t \in Branches \X Branches}

InlineNodes == {Null, EmptyDict, PStr, WithDesc(BrY, D_own), PArrObj}

(***************************************************************************)
(* The schema specification: a document, and calls of the resolver, the    *)
(* projector and the schema renderer on it.                                *)
(***************************************************************************)
InitSchema ==
    /\ doc \in SchemaDocs
    /\ call = [op |-> "none"]
    /\ out = Null

ResolveRefCall ==
    \E n \in RefNodes \cup InlineNodes :
        /\ call.op = "none"
        /\ call' = [op |-> "resolve_ref", arg |-> n]
        /\ out' = ResolveRef(n, doc)
        /\ UNCHANGED doc

ResolveSchemaCall ==
    \E n \in RefNodes \cup InlineNodes \cup AllOfNodes :
        /\ call.op = "none"
        /\ call' = [op |-> "resolve_schema", arg |-> n]
        /\ out' = ResolveSchema(n, doc, 0)
        /\ UNCHANGED doc

SchemaToDataCall ==
    \E n \in RefNodes \cup InlineNodes :
        /\ call.op = "none"
        /\ call' = [op |-> "schema_to_data", arg |-> n]
        /\ out' = SchemaToData(n, doc)
        /\ UNCHANGED doc

SchemaToHtmlCall ==
    \E n \in RefNodes \cup InlineNodes :
        /\ call.op = "none"
        /\ call' = [op |-> "schema_to_html", arg |-> n]
        /\ out' = SchemaToHtml(n, doc, 0)
        /\ UNCHANGED doc

\* The call returns to its caller; the core keeps no state between calls.
Return ==
    /\ call.op # "none"
    /\ call' = [op |-> "none"]
    /\ out' = Null
    /\ UNCHANGED doc

NextSchema ==
    \/ ResolveRefCall
    \/ ResolveSchemaCall
    \/ SchemaToDataCall
    \/ SchemaToHtmlCall
    \/ Return

SpecSchema == InitSchema /\ [][NextSchema]_vars

(***************************************************************************)
(* Claims about the schema resolver, projector and schema renderer.        *)
(***************************************************************************)
PropNames(pl) == {pl[j].name : j \in 1..Len(pl)}

PropValue(pl, name) == (CHOOSE e \in {pl[j] : j \in 1..Len(pl)} : e.name = name).schema

RECURSIVE ConcatAll(_)
ConcatAll(ss) == IF ss = <<>> THEN <<>> ELSE Head(ss) \o ConcatAll(Tail(ss))

\* C1: every call of _resolve_schema returns (a node or null), also on a
\* $ref chain or allOf branch that leads back to itself and on a $ref with
\* another prefix; it never ends in unbounded recursion.
C1_ResolveSchemaReturns ==
    call.op = "resolve_schema" => ~IsError(out)

\* C2: _resolve_ref resolves a '#/components/schemas/N' ref only from
\* components.schemas and a '#/definitions/N' ref only from definitions, and
\* returns null when N is absent from the table its prefix selects.
C2_RefTableSelectedByPrefix ==
    (call.op = "resolve_ref" /\ HasKey(call.arg, "ref")) =>
        LET name == LastSegment(call.arg.ref)
        IN  /\ StartsWith(call.arg.ref, PrefixComponents) =>
                    out = IF name \in DOMAIN doc.schemas
                          THEN doc.schemas[name] ELSE Null
            /\ StartsWith(call.arg.ref, PrefixDefinitions) =>
                    out = IF name \in DOMAIN doc.definitions
                          THEN doc.definitions[name] ELSE Null

\* C3: whenever resolving an allOf node returns, the result is one object node
\* whose properties are the union of the (resolved) branches' properties, each
\* name once and with the value of the last branch that has it, and whose
\* required list is the concatenation of the branches' required lists; and
\* resolving allOf [A, B, C] gives the same properties as allOf [allOf [A, B], C].
C3_AllOfMerge ==
    (call.op = "resolve_schema" /\ HasKey(call.arg, "allOf")
        /\ ~HasKey(call.arg, "ref") /\ ~IsError(out)) =>
        LET bs == call.arg.allOf
            n == Len(bs)
            r == [i \in 1..n |-> ResolveSchema(bs[i], doc, 1)]
            P == [i \in 1..n |-> IF IsNull(r[i]) THEN <<>> ELSE GetList(r[i], "properties")]
            R == [i \in 1..n |-> IF IsNull(r[i]) THEN <<>> ELSE GetList(r[i], "required")]
            op == out.properties
        IN  /\ out.type = T_object
            /\ PropNames(op) = UNION {PropNames(P[i]) : i \in 1..n}
            /\ \A j, k \in 1..Len(op) : op[j].name = op[k].name => j = k
            /\ \A j \in 1..Len(op) :
                  LET last == SetMax({i \in 1..n : op[j].name \in PropNames(P[i])})
                  IN  op[j].schema = PropValue(P[last], op[j].name)
            /\ out.required = ConcatAll(R)
            /\ n = 3 =>
                  LET nested == ResolveSchema(
                          [allOf |-> <<[allOf |-> <<bs[1], bs[2]>>], bs[3]>>], doc, 0)
                  IN  ~IsError(nested) /\ nested.properties = op

\* C3 witness: a three-branch allOf has been resolved in which a later branch
\* overrides a property of an earlier one and a required name is repeated.
C3_Witness ==
    /\ call.op = "resolve_schema"
    /\ call.arg = [allOf |-> <<BrY, [ref |-> RefC(N_B)], BrX>>]
    /\ N_B \in DOMAIN doc.schemas
    /\ ~IsError(out)
    /\ Len(out.properties) = 2
    /\ PropValue(out.properties, N_p) = PStr
    /\ PropValue(BrY.properties, N_p) = PStrD
    /\ Len(out.required) >= 4

\* C4: on an OAS3 document, projecting {"$ref": "#/components/schemas/X"} yields exactly one field
\* per entry of components.schemas.X.properties, in order, each required iff
\* its name is in components.schemas.X.required (X a schema object with its
\* own properties, whose resolution returns).
C4_RefProjectsOwnProperties ==
    (call.op = "schema_to_data" /\ doc.definitions = <<>> /\ HasKey(call.arg, "ref")
        /\ StartsWith(call.arg.ref, PrefixComponents)
        /\ LastSegment(call.arg.ref) \in DOMAIN doc.schemas
        /\ HasKey(doc.schemas[LastSegment(call.arg.ref)], "properties")
        /\ ~HasKey(doc.schemas[LastSegment(call.arg.ref)], "ref")
        /\ ~IsError(out)) =>
        LET X == doc.schemas[LastSegment(call.arg.ref)]
            fields == GetList(out, "properties")
        IN  /\ Len(fields) = Len(X.properties)
            /\ \A i \in 1..Len(fields) :
                  /\ fields[i].name = X.properties[i].name
                  /\ fields[i].required = (X.properties[i].name \in RequiredSet(X))

\* The description a property is to show: its own when it has one, otherwise
\* that of the schema it resolves to.
ExpectedDescription(prop_schema) ==
    IF GetText(prop_schema, "description") # <<>> THEN prop_schema.description
    ELSE LET t == ResolveSchema(prop_schema, doc, 1)
         IN  IF IsError(t) \/ IsNull(t) THEN <<>> ELSE GetText(t, "description")

C5_DataDescription ==
    (call.op = "schema_to_data" /\ doc.definitions = <<>> /\ ~IsError(out)
        /\ ~IsNull(out) /\ HasKey(out, "properties")) =>
        LET props == GetList(ResolveOrSelf(call.arg, doc, 1), "properties")
        IN  \A i \in 1..Len(props) :
                out.properties[i].description = ExpectedDescription(props[i].schema)

C5_HtmlDescription ==
    (call.op = "schema_to_html" /\ doc.definitions = <<>> /\ ~IsError(out)
        /\ Len(out.html) = 3
        /\ HasKey(out.html[2], "html")) =>
        LET props == GetList(ResolveOrSelf(call.arg, doc, 1), "properties")
            IsDesc(it) == HasKey(it, "txt") /\ it.site = "prop_desc"
            shown == SelectSeq(out.html[2].html, IsDesc)
        IN  /\ Len(shown) = Len(props)
            /\ \A i \in 1..Len(props) :
                  shown[i].txt = Escape(NlToSpace(ExpectedDescription(props[i].schema)))

\* C5: on an OAS3 document, in the data and in the HTML projection a property shows its own
\* description when it has one and only otherwise the description of the
\* schema it resolves to (never one taken from elsewhere).
C5_PropertyDescription == C5_DataDescription /\ C5_HtmlDescription

(***************************************************************************)
(* Operation Normalizer (build_api_reference_data).  A mapping whose keys  *)
(* come from the document (paths, a path item, responses, a media-type     *)
(* map, a security entry) is [entries |-> <<[name |-> k, value |-> v]>>]   *)
(* in insertion order.  A str found where a mapping is expected is         *)
(* [str |-> text], a list of str is [list |-> texts], and an uncaught      *)
(* AttributeError is the record AttributeError.                            *)
(***************************************************************************)
AttributeError == [error |-> "AttributeError"]

Mapping(es) == [entries |-> es]

Entry(k, v) == [name |-> k, value |-> v]

Str(t) == [str |-> t]

IsStr(v) == HasKey(v, "str")

IsMapping(v) == HasKey(v, "entries")

\* isinstance(v, dict)
IsDict(v) == ~IsNull(v) /\ ~IsStr(v) /\ ~HasKey(v, "list")

\* bool(v) of None, a str, a mapping or a dict.
PyTruthy(v) ==
    IF IsStr(v) THEN v.str # <<>>
    ELSE IF IsMapping(v) THEN v.entries # <<>>
    ELSE Truthy(v)

MappingHas(d, k) == \E i \in 1..Len(d.entries) : d.entries[i].name = k

\* d.get(k)
MappingGet(d, k) ==
    IF MappingHas(d, k)
    THEN d.entries[CHOOSE i \in 1..Len(d.entries) : d.entries[i].name = k].value
    ELSE Null

T_Other == <<"O", "t", "h", "e", "r">>

T_endpoint == <<"e", "n", "d", "p", "o", "i", "n", "t", "-">>

T_query == <<"q", "u", "e", "r", "y">>

T_Bearer == <<"B", "e", "a", "r", "e", "r">>

T_bearer == <<"b", "e", "a", "r", "e", "r">>

T_api_reference == <<"A", "P", "I", " ", "R", "e", "f", "e", "r", "e", "n", "c", "e">>

\* The fixed method list, in the order the first loop tries it.
StandardMethods ==
    << <<"g", "e", "t">>, <<"p", "o", "s", "t">>, <<"p", "u", "t">>, <<"p", "a", "t", "c", "h">>, <<"d", "e", "l", "e", "t", "e">>,
       <<"o", "p", "t", "i", "o", "n", "s">>, <<"h", "e", "a", "d">> >>

\* The keys the second loop skips.
SkippedKeys == {<<"g", "e", "t">>, <<"p", "o", "s", "t">>, <<"p", "u", "t">>, <<"p", "a", "t", "c", "h">>, <<"d", "e", "l", "e", "t", "e">>}

BodyMethods == {<<"P", "O", "S", "T">>, <<"P", "U", "T">>, <<"P", "A", "T", "C", "H">>}

JsonMediaTypes ==
    << <<"a", "p", "p", "l", "i", "c", "a", "t", "i", "o", "n", "/", "j", "s", "o", "n">>, <<"a", "p", "p", "l", "i", "c", "a", "t", "i", "o", "n", "/", "j", "s", "o", "n", ";", " ", "c", "h", "a", "r", "s", "e", "t", "=", "u", "t", "f", "-", "8">> >>

\* repr(t) of a str without quotes, backslashes or control characters.
Repr(t) == <<"'">> \o t \o <<"'">>

RECURSIVE JoinRepr(_, _)
JoinRepr(texts, i) ==
    IF i > Len(texts) THEN <<>>
    ELSE (IF i > 1 THEN <<",", " ">> ELSE <<>>) \o Repr(texts[i]) \o JoinRepr(texts, i + 1)

\* str(v) of a str or of a list of str.
PyStr(v) ==
    IF IsStr(v) THEN v.str ELSE <<"[">> \o JoinRepr(v.list, 1) \o <<"]">>

\* Mutant of HasAuth: the scheme names (the keys) are searched as well.
HasAuthByName(op) ==
    LET sec == GetList(op, "security")
    IN  \E i \in 1..Len(sec) :
           /\ IsMapping(sec[i])
           /\ \E j \in 1..Len(sec[i].entries) :
                 \/ Contains(LowerText(sec[i].entries[j].name), T_bearer)
                 \/ Contains(LowerText(PyStr(sec[i].entries[j].value)), T_bearer)

HasAuth(op) ==
    LET sec == GetList(op, "security")
    IN  \E i \in 1..Len(sec) :
           /\ IsMapping(sec[i])
           /\ \E j \in 1..Len(sec[i].entries) :
                 LET sv == PyStr(sec[i].entries[j].value)
                 IN  Contains(sv, T_Bearer) \/ Contains(LowerText(sv), T_bearer)

\* sorted(d.items()) of a mapping with str keys.
RECURSIVE SortedEntries(_)
SortedEntries(es) ==
    IF es = <<>> THEN <<>>
    ELSE LET i == CHOOSE i \in 1..Len(es) :
                     \A j \in 1..Len(es) : ~TextLess(es[j].name, es[i].name)
         IN  <<es[i]>> \o SortedEntries(SubSeq(es, 1, i - 1) \o SubSeq(es, i + 1, Len(es)))

\* sorted(S) of a set of str.
RECURSIVE SortedTexts(_)
SortedTexts(S) ==
    IF S = {} THEN <<>>
    ELSE LET t == CHOOSE t \in S : \A u \in S : ~TextLess(u, t)
         IN  <<t>> \o SortedTexts(S \ {t})

\* (op.get("tags") or ["Other"])[0]
OpTag(op) == IF GetList(op, "tags") # <<>> THEN op.tags[1] ELSE T_Other

ByTagEntry(path, key, op) ==
    [path |-> path, method |-> UpperText(key), op |-> op,
     endpoint_id |-> T_endpoint \o Slug(key \o <<"-">> \o path),
     tag |-> OpTag(op)]

\* The first loop's entries for one path, from the i-th standard method on.
RECURSIVE StandardEntries(_, _, _)
StandardEntries(path, path_item, i) ==
    IF i > Len(StandardMethods) THEN <<>>
    ELSE LET method == StandardMethods[i]
             op == MappingGet(path_item, method)
         IN  (IF IsDict(op) THEN <<ByTagEntry(path, method, op)>> ELSE <<>>)
             \o StandardEntries(path, path_item, i + 1)

\* The second loop's entries for one path, from the i-th key on.
RECURSIVE ExtraEntries(_, _, _)
ExtraEntries(path, path_item, i) ==
    IF i > Len(path_item.entries) THEN <<>>
    ELSE LET key == path_item.entries[i].name
             op == MappingGet(path_item, key)
         IN  (IF /\ LowerText(key) \notin SkippedKeys
                 /\ IsDict(op)
                 /\ (HasKey(op, "summary") \/ HasKey(op, "description"))
              THEN <<ByTagEntry(path, key, op)>> ELSE <<>>)
             \o ExtraEntries(path, path_item, i + 1)

RECURSIVE FirstLoop(_, _)
FirstLoop(sorted_paths, i) ==
    IF i > Len(sorted_paths) THEN <<>>
    ELSE StandardEntries(sorted_paths[i].name, sorted_paths[i].value, 1)
         \o FirstLoop(sorted_paths, i + 1)

RECURSIVE SecondLoop(_, _)
SecondLoop(sorted_paths, i) ==
    IF i > Len(sorted_paths) THEN <<>>
    ELSE LET path_item == sorted_paths[i].value
         IN  (IF /\ IsMapping(path_item)
                 /\ ~MappingHas(path_item, <<"g", "e", "t">>)
                 /\ ~MappingHas(path_item, <<"p", "o", "s", "t">>)
              THEN ExtraEntries(sorted_paths[i].name, path_item, 1) ELSE <<>>)
             \o SecondLoop(sorted_paths, i + 1)

\* The entries of by_tag in the order they are appended, each with its tag;
\* path_item.get raises AttributeError when a path item is not a mapping.
ByTag(openapi_schema) ==
    LET paths == IF HasKey(openapi_schema, "paths") THEN openapi_schema.paths.entries
                 ELSE <<>>
        sorted_paths == SortedEntries(paths)
    IN  IF \E i \in 1..Len(paths) : ~IsMapping(paths[i].value)
        THEN AttributeError
        ELSE [entries |-> FirstLoop(sorted_paths, 1) \o SecondLoop(sorted_paths, 1)]

\* sorted(by_tag.keys())
SortedTags(entries) == SortedTexts({entries[i].tag : i \in 1..Len(entries)})

\* by_tag[tag]
TagEntries(entries, tag) == SelectSeq(entries, LAMBDA e : e.tag = tag)

\* STACKS of src/app/docs_agent.py, imported by api_reference.
STACKS ==
    << [value |-> <<"r", "e", "a", "c", "t", "-", "f", "e", "t", "c", "h">>, label |-> <<"R", "e", "a", "c", "t", " ", "+", " ", "f", "e", "t", "c", "h">>],
       [value |-> <<"r", "e", "a", "c", "t", "-", "a", "x", "i", "o", "s">>, label |-> <<"R", "e", "a", "c", "t", " ", "+", " ", "a", "x", "i", "o", "s">>],
       [value |-> <<"v", "u", "e", "3">>, label |-> <<"V", "u", "e", " ", "3">>],
       [value |-> <<"n", "e", "x", "t", "j", "s">>, label |-> <<"N", "e", "x", "t", ".", "j", "s">>],
       [value |-> <<"a", "n", "g", "u", "l", "a", "r">>, label |-> <<"A", "n", "g", "u", "l", "a", "r">>],
       [value |-> <<"s", "v", "e", "l", "t", "e">>, label |-> <<"S", "v", "e", "l", "t", "e">>],
       [value |-> <<"v", "a", "n", "i", "l", "l", "a">>, label |-> <<"V", "a", "n", "i", "l", "l", "a", " ", "J", "S">>],
       [value |-> <<"r", "e", "a", "c", "t", "-", "n", "a", "t", "i", "v", "e">>, label |-> <<"R", "e", "a", "c", "t", " ", "N", "a", "t", "i", "v", "e">>],
       [value |-> <<"f", "l", "u", "t", "t", "e", "r">>, label |-> <<"F", "l", "u", "t", "t", "e", "r">>],
       [value |-> <<"s", "w", "i", "f", "t", "-", "i", "o", "s">>, label |-> <<"S", "w", "i", "f", "t", " ", "(", "i", "O", "S", ")">>],
       [value |-> <<"k", "o", "t", "l", "i", "n", "-", "a", "n", "d", "r", "o", "i", "d">>, label |-> <<"K", "o", "t", "l", "i", "n", " ", "(", "A", "n", "d", "r", "o", "i", "d", ")">>] >>

\* The first element of a sequence that is an error, or Null.
FirstError(seq) ==
    IF \E i \in 1..Len(seq) : IsError(seq[i])
    THEN seq[CHOOSE i \in 1..Len(seq) :
                 IsError(seq[i]) /\ \A j \in 1..(i - 1) : ~IsError(seq[j])]
    ELSE Null

\* One element of parameters_data; p.get raises when p is not a mapping.
ParameterData(p) ==
    IF ~IsDict(p) THEN AttributeError
    ELSE [name |-> GetText(p, "name"),
          in |-> IF HasKey(p, "in") THEN p.in ELSE T_query,
          required |-> HasKey(p, "required") /\ p.required,
          description |-> NlToSpace(GetText(p, "description"))]

\* The body schema _response_to_data finds: the loop stops at the first of the
\* two media types that is present, whether or not it carries a schema.
ResponseBodySchema(media) ==
    LET present == {i \in 1..Len(JsonMediaTypes) : MappingHas(media, JsonMediaTypes[i])}
    IN  IF present = {} THEN Null
        ELSE LET media_spec == MappingGet(media, JsonMediaTypes[CHOOSE i \in present :
                                                      \A j \in present : i <= j])
             IN  IF IsDict(media_spec) /\ HasKey(media_spec, "schema")
                    /\ Truthy(media_spec.schema)
                 THEN media_spec.schema ELSE Null

\* The dict _response_to_data returns, given the body schema found (or Null)
\* and its projection.
ResponseRecord(code, desc, schema, body_schema) ==
    IF IsNull(schema) THEN [code |-> code, description |-> desc]
    ELSE IF IsError(body_schema) THEN body_schema
    ELSE [code |-> code, description |-> desc, body_schema |-> body_schema]

\* content.get("content", {}) or {} if isinstance(content, dict) else {}
ResponseMedia(content) ==
    IF IsDict(content) /\ HasKey(content, "content") THEN content.content
    ELSE Mapping(<<>>)

ResponseToData(code, content, openapi_schema) ==
    ResponseRecord(code,
                   IF IsDict(content) THEN GetText(content, "description")
                   ELSE PyStr(content),
                   ResponseBodySchema(ResponseMedia(content)),
                   SchemaToData(ResponseBodySchema(ResponseMedia(content)),
                                openapi_schema))

\* The dict _request_body_to_data returns, given the projection of the schema.
RequestBodyRecord(body, schema) ==
    IF IsError(schema) THEN schema
    ELSE [description |-> GetText(body, "description"), schema |-> schema]

\* The loop of _request_body_to_data from the i-th media type on.
RECURSIVE RequestBodyScan(_, _, _, _)
RequestBodyScan(body, content, openapi_schema, i) ==
    IF i > Len(JsonMediaTypes) THEN Null
    ELSE LET media_spec == MappingGet(content, JsonMediaTypes[i])
         IN  IF /\ MappingHas(content, JsonMediaTypes[i])
                /\ IsDict(media_spec)
                /\ HasKey(media_spec, "schema")
                /\ Truthy(media_spec.schema)
             THEN RequestBodyRecord(body, SchemaToData(media_spec.schema, openapi_schema))
             ELSE RequestBodyScan(body, content, openapi_schema, i + 1)

RequestBodyToData(body, openapi_schema) ==
    IF ~Truthy(body) \/ ~IsDict(body) THEN Null
    ELSE RequestBodyScan(body,
                         IF HasKey(body, "content") THEN body.content ELSE Mapping(<<>>),
                         openapi_schema, 1)

\* op.get("requestBody") if isinstance(op.get("requestBody"), dict) else None
ReqBody(op) ==
    IF HasKey(op, "requestBody") /\ IsDict(op.requestBody) THEN op.requestBody ELSE Null

\* op.get("responses") or {}
Responses(op) == IF HasKey(op, "responses") THEN op.responses.entries ELSE <<>>

\* s.replace("\n", "\n")
NlToNl(s) == [i \in 1..Len(s) |-> IF s[i] = "\n" THEN "\n" ELSE s[i]]

\* base_url.rstrip("/") if base_url else ""
FullUrlBase(base_url) == IF base_url # <<>> THEN RStrip(base_url, "/") ELSE <<>>

\* The dict appended to endpoints, given the three lists built for it; an
\* error raised while building one of them propagates.
EndpointRecord(e, full_url, needs_auth, has_body, parameters_data, responses_data, request_body_data) ==
    IF ~IsNull(FirstError(parameters_data)) THEN FirstError(parameters_data)
    ELSE IF ~IsNull(FirstError(responses_data)) THEN FirstError(responses_data)
    ELSE IF IsError(request_body_data) THEN request_body_data
    ELSE [endpoint_id |-> e.endpoint_id,
          path |-> e.path,
          method |-> e.method,
          summary |-> GetText(e.op, "summary"),
          description |-> NlToNl(GetText(e.op, "description")),
          how_to_call |-> [full_url |-> full_url,
                           needs_auth |-> needs_auth,
                           has_body |-> has_body],
          parameters |-> parameters_data,
          request_body_schema |-> request_body_data,
          responses |-> responses_data]

\* One element of endpoints, for the by_tag entry e.
EndpointData(e, openapi_schema, base_url) ==
    LET op == e.op
        params == GetList(op, "parameters")
        req_body == ReqBody(op)
        responses == Responses(op)
        full_url_base == FullUrlBase(base_url)
    IN  EndpointRecord(
            e,
            IF full_url_base # <<>> THEN full_url_base \o e.path ELSE e.path,
            HasAuth(op),
            UpperText(e.method) \in BodyMethods /\ Truthy(req_body),
            [i \in 1..Len(params) |-> ParameterData(params[i])],
            [i \in 1..Len(responses) |->
               ResponseToData(responses[i].name, responses[i].value, openapi_schema)],
            IF Truthy(req_body) THEN RequestBodyToData(req_body, openapi_schema)
            ELSE Null)

\* One element of tags_payload, given its endpoints.
TagRecord(tag, endpoints) ==
    IF ~IsNull(FirstError(endpoints)) THEN FirstError(endpoints)
    ELSE [name |-> tag, endpoints |-> endpoints]

TagPayload(tag, entries, openapi_schema, base_url) ==
    LET mine == TagEntries(entries, tag)
    IN  TagRecord(tag, [i \in 1..Len(mine) |->
                          EndpointData(mine[i], openapi_schema, base_url)])

Info(openapi_schema) ==
    IF HasKey(openapi_schema, "info") THEN openapi_schema.info ELSE EmptyDict

\* The dict build_api_reference_data returns, given tags_payload.
Payload(info, base_url, tags_payload) ==
    IF ~IsNull(FirstError(tags_payload)) THEN FirstError(tags_payload)
    ELSE [title |-> IF HasKey(info, "title") THEN info.title ELSE T_api_reference,
          version |-> GetText(info, "version"),
          description |-> GetText(info, "description"),
          base_url |-> IF FullUrlBase(base_url) # <<>> THEN FullUrlBase(base_url)
                       ELSE base_url,
          tags |-> tags_payload,
          stacks |-> STACKS]

\* build_api_reference_data after its two grouping loops.
DataOfByTag(openapi_schema, base_url, by_tag, sorted_tags) ==
    IF IsError(by_tag) THEN by_tag
    ELSE Payload(Info(openapi_schema), base_url,
                 [i \in 1..Len(sorted_tags) |->
                    TagPayload(sorted_tags[i], by_tag.entries, openapi_schema, base_url)])

\* sorted(by_tag.keys()), when the grouping loops did not raise.
SortedTagsOf(by_tag) == IF IsError(by_tag) THEN <<>> ELSE SortedTags(by_tag.entries)

BuildApiReferenceData(openapi_schema, base_url) ==
    DataOfByTag(openapi_schema, base_url, ByTag(openapi_schema),
                SortedTagsOf(ByTag(openapi_schema)))

(***************************************************************************)
(* The HTML page (build_api_reference_html).  A part is the items of one   *)
(* element of sidebar_parts, main_parts or toc_parts; "\n".join(parts)     *)
(* puts a newline between consecutive parts.  A character of the template  *)
(* outside ASCII is written by its code point, as [U+1F4C1].               *)
(***************************************************************************)
\* s.replace("\n", "<br>\n") interpolated at a site: the pieces of s between
\* newlines are the document's, the "<br>\n" between them is the template's.
RECURSIVE NlToBr(_, _)
NlToBr(site, s) ==
    LET nls == {i \in 1..Len(s) : s[i] = "\n"}
    IN  IF nls = {} THEN <<Txt(site, s)>>
        ELSE LET i == CHOOSE i \in nls : \A j \in nls : i <= j
             IN  <<Txt(site, SubSeq(s, 1, i - 1)), Lit("<br>\n")>>
                 \o NlToBr(site, SubSeq(s, i + 1, Len(s)))

\* s[:n] + ("U+2026" if len(s) > n else "")
Truncate(s, n) == IF Len(s) > n THEN SubSeq(s, 1, n) \o <<"U+2026">> ELSE s

\* "".join(seqs[lo..hi]), halving the range.
RECURSIVE FlattenRange(_, _, _)
FlattenRange(seqs, lo, hi) ==
    IF lo > hi THEN <<>>
    ELSE IF lo = hi THEN seqs[lo]
    ELSE FlattenRange(seqs, lo, (lo + hi) \div 2)
         \o FlattenRange(seqs, (lo + hi) \div 2 + 1, hi)

\* "".join(seqs)
Flatten(seqs) == FlattenRange(seqs, 1, Len(seqs))

\* "\n".join(parts)
JoinNl(parts) ==
    Flatten([i \in 1..Len(parts) |->
               IF i = 1 THEN parts[i] ELSE <<Lit("\n")>> \o parts[i]])

\* One row of _params_list; p.get raises when p is not a mapping.
ParamRow(p) ==
    IF ~IsDict(p) THEN AttributeError
    ELSE [html |->
            << Lit("<tr><td><code>"), Txt("param_name", Escape(GetText(p, "name"))),
               Lit("</code></td><td>"),
               Txt("param_in", IF HasKey(p, "in") THEN p.in ELSE T_query),
               Lit("</td><td>"),
               Lit(IF HasKey(p, "required") /\ p.required THEN "required" ELSE "optional"),
               Lit("</td><td>"),
               Txt("param_description", Escape(NlToSpace(GetText(p, "description")))),
               Lit("</td></tr>") >>]

\* The table _params_list returns, given its rows.
ParamsTable(rows) ==
    IF ~IsNull(FirstError(rows)) THEN FirstError(rows)
    ELSE [html |->
            <<Lit("<table class=\"schema-table\"><thead><tr><th>Name</th><th>In</th><th>Required</th><th>Description</th></tr></thead><tbody>")>>
            \o Flatten([i \in 1..Len(rows) |-> rows[i].html])
            \o <<Lit("</tbody></table>")>>]

ParamsList(params) ==
    IF params = <<>> THEN [html |-> <<>>]
    ELSE ParamsTable([i \in 1..Len(params) |-> ParamRow(params[i])])

\* What the media loop appends for one schema (lead goes before it) and then
\* for the rest of the entries.
MediaAppend(lead, body, rest) ==
    IF IsError(body) THEN body
    ELSE IF IsError(rest) THEN rest
    ELSE [html |-> lead \o <<Sub("schema", body.html)>> \o rest.html]

\* What the media loop of _response_section and _request_body appends for the
\* entries of a media-type map from the i-th on.
RECURSIVE MediaSchemas(_, _, _, _)
MediaSchemas(media, openapi_schema, lead, i) ==
    IF i > Len(media.entries) THEN [html |-> <<>>]
    ELSE LET media_type == media.entries[i].name
             media_spec == media.entries[i].value
             schema == IF IsDict(media_spec) /\ HasKey(media_spec, "schema")
                       THEN media_spec.schema ELSE Null
         IN  IF \/ \A k \in 1..Len(JsonMediaTypes) : JsonMediaTypes[k] # media_type
                \/ ~Truthy(schema)
             THEN MediaSchemas(media, openapi_schema, lead, i + 1)
             ELSE MediaAppend(lead, SchemaToHtml(schema, openapi_schema, 0),
                              MediaSchemas(media, openapi_schema, lead, i + 1))

\* The string _response_section returns, given what its media loop appended.
ResponseSectionHtml(code, desc, bodies) ==
    IF IsError(bodies) THEN bodies
    ELSE [html |->
            << Lit("<p><strong>"), Txt("response_code", Escape(code)),
               Lit("</strong>: "), Txt("response_description", Escape(desc)),
               Lit("</p>") >> \o bodies.html]

ResponseSection(code, content, openapi_schema) ==
    ResponseSectionHtml(
        code,
        IF IsDict(content) THEN GetText(content, "description") ELSE PyStr(content),
        MediaSchemas(IF HasKey(content, "content") THEN content.content
                     ELSE Mapping(<<>>),
                     openapi_schema, <<Lit("<p><em>Response body:</em></p>")>>, 1))

\* The response-block item of _responses_list around one response section.
ResponseBlock(section) ==
    IF IsError(section) THEN section
    ELSE [html |->
            << Lit("<li class=\"response-block\">"),
               Sub("response_section", section.html), Lit("</li>") >>]

\* One element of items in _responses_list.
ResponseItem(code, content, openapi_schema) ==
    IF ~IsDict(content)
    THEN [html |->
            << Lit("<li><strong>"), Txt("response_code", Escape(code)),
               Lit("</strong>: "), Txt("response_description", Escape(PyStr(content))),
               Lit("</li>") >>]
    ELSE ResponseBlock(ResponseSection(code, content, openapi_schema))

\* The list _responses_list returns, given its items.
ResponsesUl(items) ==
    IF ~IsNull(FirstError(items)) THEN FirstError(items)
    ELSE [html |->
            <<Lit("<ul class=\"response-list\">")>>
            \o Flatten([i \in 1..Len(items) |-> items[i].html])
            \o <<Lit("</ul>")>>]

ResponsesList(responses, openapi_schema) ==
    IF responses = <<>> THEN [html |-> <<>>]
    ELSE ResponsesUl([i \in 1..Len(responses) |->
                        ResponseItem(responses[i].name, responses[i].value,
                                     openapi_schema)])

\* The string _request_body returns, given what its media loop appended.
RequestBodyHtml(desc, schemas) ==
    IF IsError(schemas) THEN schemas
    ELSE [html |->
            (IF desc # <<>>
             THEN << Lit("<p>"), Txt("request_body_description", Escape(desc)),
                     Lit("</p>") >>
             ELSE <<>>) \o schemas.html]

RequestBody(body, openapi_schema) ==
    IF ~Truthy(body) THEN [html |-> <<>>]
    ELSE IF ~HasKey(body, "content") THEN [html |-> <<>>]
    ELSE IF body.content.entries = <<>> THEN [html |-> <<>>]
    ELSE RequestBodyHtml(GetText(body, "description"),
                         MediaSchemas(body.content, openapi_schema, <<>>, 1))

\* The value _how_to_call tests as has_body.
HowToCallHasBody(method, op) ==
    /\ UpperText(method) \in BodyMethods
    /\ HasKey(op, "requestBody")
    /\ PyTruthy(op.requestBody)

HowToCall(method, path, op, base_url) ==
    LET full_url == IF base_url # <<>> THEN RStrip(base_url, "/") \o path ELSE path
        needs_auth == HasAuth(op)
        has_body == HowToCallHasBody(method, op)
    IN  << Lit("<div class=\"how-to-call\">"),
           Lit("<p><strong>Request</strong></p>"),
           Lit("<pre class=\"request-line\"><span class=\"method method-"),
           Txt("method_class", LowerText(method)), Lit("\">"),
           Txt("method", UpperText(method)), Lit("</span> "),
           Txt("full_url", Escape(full_url)), Lit("</pre>") >>
        \o (IF needs_auth
            THEN << Lit("<p class=\"call-headers\"><strong>Headers</strong></p>"),
                    IF has_body
                    THEN Lit("<pre class=\"code-block\">Authorization: Bearer &lt;your_token&gt;\nContent-Type: application/json</pre>")
                    ELSE Lit("<pre class=\"code-block\">Authorization: Bearer &lt;your_token&gt;</pre>") >>
            ELSE IF has_body
            THEN << Lit("<p class=\"call-headers\"><strong>Headers</strong></p>"),
                    Lit("<pre class=\"code-block\">Content-Type: application/json</pre>") >>
            ELSE <<>>)
        \o (IF has_body
            THEN <<Lit("<p class=\"call-body\">Send a JSON body; see <strong>Request body</strong> schema below.</p>")>>
            ELSE <<>>)
        \o <<Lit("</div>")>>

T_tag == <<"t", "a", "g", "-">>

TagId(tag) == T_tag \o Slug(tag)

\* (op.get("summary") or path)[:n] with its ellipsis.
ShortSummary(e, n) ==
    Truncate(IF GetText(e.op, "summary") # <<>> THEN e.op.summary ELSE e.path, n)

SidebarLink(e) ==
    << Lit("<li><a href=\"#"), Txt("endpoint_id", e.endpoint_id),
       Lit("\" class=\"sidebar-link sublink\" title=\""), Txt("path", Escape(e.path)),
       Lit("\"><span class=\"method method-"), Txt("method_class", LowerText(e.method)),
       Lit("\">"), Txt("method", e.method), Lit("</span> "),
       Txt("summary", Escape(ShortSummary(e, 45))), Lit("</a></li>") >>

\* The parts the sidebar loop appends for one tag.
SidebarTagParts(tag, entries) ==
    LET tag_id == TagId(tag)
        icon == IF LowerText(tag) = <<"a", "u", "t", "h">> THEN "[U+1F50C]"
                ELSE IF LowerText(tag) = <<"m", "e", "s", "s", "a", "g", "i", "n", "g">> THEN "[U+1F4E1]"
                ELSE "[U+1F4C1]"
        mine == TagEntries(entries, tag)
    IN  << <<Lit("<li class=\"sidebar-tag-wrap\">")>>,
           << Lit("<button type=\"button\" class=\"sidebar-tag-toggle\" aria-expanded=\"true\" data-tag=\""),
              Txt("tag_id", Escape(tag_id)), Lit("\"><span class=\"sidebar-icon\">"),
              Lit(icon), Lit("</span>"), Txt("tag", Escape(tag)),
              Lit("<span class=\"sidebar-arrow\">[U+25BC]</span></button>") >>,
           << Lit("<ul class=\"sidebar-sublist\" data-tag=\""),
              Txt("tag_id", Escape(tag_id)), Lit("\">") >> >>
        \o [i \in 1..Len(mine) |-> SidebarLink(mine[i])]
        \o << <<Lit("</ul></li>")>> >>

SidebarParts(title, sorted_tags, entries) ==
    << <<Lit("<header class=\"topbar\">")>>,
       << Lit("<a href=\"#overview\" class=\"topbar-logo\">"), Txt("title", title),
          Lit("</a>") >>,
       <<Lit("<nav class=\"topbar-tabs\">")>>,
       <<Lit("<a href=\"#overview\" class=\"topbar-tab active\">Overview</a>")>>,
       IF sorted_tags # <<>>
       THEN << Lit("<a href=\"#tag-"), Txt("tag_slug", Slug(sorted_tags[1])),
               Lit("\" class=\"topbar-tab\">API Reference</a>") >>
       ELSE <<>>,
       <<Lit("</nav>")>>,
       <<Lit("<div class=\"topbar-search\" role=\"search\"><span class=\"topbar-search-placeholder\">Search docs[U+2026] <kbd>[U+2318]K</kbd></span></div>")>>,
       <<Lit("<a href=\"/docs\" class=\"topbar-swagger\">Swagger UI</a>")>>,
       <<Lit("</header>")>>,
       <<Lit("<aside class=\"sidebar\" id=\"sidebar\">")>>,
       <<Lit("<nav class=\"sidebar-nav\">")>>,
       <<Lit("<p class=\"sidebar-category\">GETTING STARTED</p>")>>,
       <<Lit("<ul class=\"sidebar-list\">")>>,
       <<Lit("<li><a href=\"#overview\" class=\"sidebar-link sidebar-link-overview\"><span class=\"sidebar-icon\">[U+1F4D6]</span> Introduction</a></li>")>>,
       <<Lit("<li><a href=\"/docs\" class=\"sidebar-link\"><span class=\"sidebar-icon\">[U+25B6]</span> Try in Swagger</a></li>")>>,
       <<Lit("</ul>")>>,
       <<Lit("<p class=\"sidebar-category\">API MODULES</p>")>>,
       <<Lit("<ul class=\"sidebar-list\">")>> >>
    \o Flatten([i \in 1..Len(sorted_tags) |-> SidebarTagParts(sorted_tags[i], entries)])
    \o << <<Lit("</ul></nav>")>>, <<Lit("</aside>")>> >>

ModuleCard(tag, entries) ==
    LET count == Len(TagEntries(entries, tag))
    IN  << Lit("<a href=\"#"), Txt("tag_id", TagId(tag)),
           Lit("\" class=\"module-card\"><span class=\"module-card-name\">"),
           Txt("tag", Escape(tag)),
           Lit("</span><span class=\"module-card-count\">"), Lit(ToString(count)),
           Lit(" endpoint"), Lit(IF count # 1 THEN "s" ELSE ""), Lit("</span></a>") >>

\* The tab buttons of one endpoint card: the web stacks, then the mobile ones.
StackTabs ==
    LET web == SelectSeq(STACKS, LAMBDA s :
                   s.value \in {<<"r", "e", "a", "c", "t", "-", "f", "e", "t", "c", "h">>, <<"r", "e", "a", "c", "t", "-", "a", "x", "i", "o", "s">>, <<"v", "u", "e", "3">>,
                                <<"n", "e", "x", "t", "j", "s">>, <<"a", "n", "g", "u", "l", "a", "r">>, <<"s", "v", "e", "l", "t", "e">>, <<"v", "a", "n", "i", "l", "l", "a">>})
        mobile == SelectSeq(STACKS, LAMBDA s :
                      s.value \in {<<"r", "e", "a", "c", "t", "-", "n", "a", "t", "i", "v", "e">>, <<"f", "l", "u", "t", "t", "e", "r">>, <<"s", "w", "i", "f", "t", "-", "i", "o", "s">>,
                                   <<"k", "o", "t", "l", "i", "n", "-", "a", "n", "d", "r", "o", "i", "d">>})
        all == web \o mobile
    IN  [i \in 1..Len(all) |->
           << Lit("<button type=\"button\" role=\"tab\" class=\"code-example-tab"),
              Lit(IF i = 1 THEN " code-example-tab-active" ELSE ""),
              Lit("\" data-stack=\""), Txt("stack_value", Escape(all[i].value)),
              Lit("\" aria-selected=\""), Lit(IF i = 1 THEN "true" ELSE "false"),
              Lit("\">"), Txt("stack_label", Escape(all[i].label)), Lit("</button>") >>]

\* The parts of one endpoint card, given the three blocks rendered for it, as
\* [parts |-> parts] or the error raised while rendering one of them.
EndpointCardParts(e, base_url, params_html, body_html, responses_html) ==
    IF IsError(params_html) THEN params_html
    ELSE IF IsError(body_html) THEN body_html
    ELSE IF IsError(responses_html) THEN responses_html
    ELSE [parts |->
      << << Lit("<article id=\""), Txt("endpoint_id", e.endpoint_id),
            Lit("\" class=\"endpoint-card\">") >>,
         << Lit("<div class=\"endpoint-header\"><span class=\"method method-"),
            Txt("method_class", LowerText(e.method)), Lit("\">"),
            Txt("method", e.method),
            Lit("</span><code class=\"endpoint-path\">"), Txt("path", Escape(e.path)),
            Lit("</code></div>") >> >>
      \o (IF GetText(e.op, "summary") # <<>>
          THEN << << Lit("<p class=\"endpoint-summary\">"),
                     Txt("summary", Escape(e.op.summary)), Lit("</p>") >> >>
          ELSE <<>>)
      \o (IF GetText(e.op, "description") # <<>>
          THEN << << Lit("<div class=\"endpoint-description\">"),
                     Sub("description", NlToBr("description", e.op.description)),
                     Lit("</div>") >> >>
          ELSE <<>>)
      \o << HowToCall(e.method, e.path, e.op, base_url),
            << Lit("<div class=\"code-example-block\" data-path=\""),
               Txt("path", Escape(e.path)), Lit("\" data-method=\""),
               Txt("method", Escape(e.method)), Lit("\">") >>,
            <<Lit("<h4>Implement in your stack</h4>")>>,
            <<Lit("<p class=\"code-example-intro\">Choose a framework and generate a ready-to-use example (includes auth and request setup).</p>")>>,
            <<Lit("<div class=\"code-example-tabs-wrap\">")>>,
            <<Lit("<div class=\"code-example-tabs\" role=\"tablist\" aria-label=\"Frontend stack\">")>> >>
      \o StackTabs
      \o << <<Lit("</div>")>>,
            <<Lit("<button type=\"button\" class=\"code-example-btn\">Generate example</button>")>>,
            <<Lit("</div>")>>,
            <<Lit("<div class=\"code-example-output\" hidden><pre class=\"code-example-pre\"><code class=\"code-example-code\"></code></pre><button type=\"button\" class=\"code-example-copy\" title=\"Copy\">Copy</button></div>")>>,
            <<Lit("<div class=\"code-example-loading\" hidden>Generating[U+2026]</div>")>>,
            <<Lit("<div class=\"code-example-error\" hidden></div>")>>,
            <<Lit("</div>")>> >>
      \o (IF GetList(e.op, "parameters") # <<>>
          THEN << <<Lit("<h4>Parameters</h4>")>>,
                  <<Sub("params_list", params_html.html)>> >>
          ELSE <<>>)
      \o (IF Truthy(ReqBody(e.op))
          THEN << <<Lit("<h4>Request body</h4>")>>,
                  <<Sub("request_body", body_html.html)>> >>
          ELSE <<>>)
      \o (IF Responses(e.op) # <<>>
          THEN << <<Lit("<h4>Responses</h4>")>>,
                  <<Sub("responses_list", responses_html.html)>> >>
          ELSE <<>>)
      \o << <<Lit("</article>")>> >>]

EndpointCard(e, openapi_schema, base_url) ==
    EndpointCardParts(
        e, base_url,
        ParamsList(GetList(e.op, "parameters")),
        IF Truthy(ReqBody(e.op)) THEN RequestBody(ReqBody(e.op), openapi_schema)
        ELSE [html |-> <<>>],
        ResponsesList(Responses(e.op), openapi_schema))

\* The parts of one tag section, given its endpoint cards.
TagSectionParts(tag, cards) ==
    IF ~IsNull(FirstError(cards)) THEN FirstError(cards)
    ELSE [parts |->
            << << Lit("<section id=\""), Txt("tag_id", TagId(tag)),
                  Lit("\" class=\"doc-section\">") >>,
               << Lit("<h2 class=\"section-title\">"), Txt("tag", Escape(tag)),
                  Lit("</h2>") >> >>
            \o Flatten([i \in 1..Len(cards) |-> cards[i].parts])
            \o << <<Lit("</section>")>> >>]

TagSection(tag, entries, openapi_schema, base_url) ==
    LET mine == TagEntries(entries, tag)
    IN  TagSectionParts(tag, [i \in 1..Len(mine) |->
                                EndpointCard(mine[i], openapi_schema, base_url)])

\* main_parts, given the tag sections.
MainPartsOf(version, description, sorted_tags, entries, sections) ==
    IF ~IsNull(FirstError(sections)) THEN FirstError(sections)
    ELSE [parts |->
            << <<Lit("<main class=\"content\">")>>,
               <<Lit("<section id=\"overview\" class=\"doc-section overview-section\">")>>,
               <<Lit("<h1>Overview</h1>")>>,
               << Lit("<p class=\"version-badge\">Version "), Txt("version", version),
                  Lit("</p>") >> >>
            \o (IF description # <<>>
                THEN << << Lit("<div class=\"overview-description\">"),
                           Sub("info_description",
                               NlToBr("info_description", description)),
                           Lit("</div>") >> >>
                ELSE <<>>)
            \o << <<Lit("<h2 id=\"overview-modules\">Modules</h2>")>>,
                  <<Lit("<div class=\"module-cards\">")>> >>
            \o [i \in 1..Len(sorted_tags) |-> ModuleCard(sorted_tags[i], entries)]
            \o << <<Lit("</div></section>")>> >>
            \o Flatten([i \in 1..Len(sections) |-> sections[i].parts])
            \o << <<Lit("</main>")>> >>]

MainParts(version, description, sorted_tags, entries, openapi_schema, base_url) ==
    MainPartsOf(version, description, sorted_tags, entries,
                [i \in 1..Len(sorted_tags) |->
                   TagSection(sorted_tags[i], entries, openapi_schema, base_url)])

TocLink(e) ==
    << Lit("<li class=\"toc-sublist\"><a href=\"#"), Txt("endpoint_id", e.endpoint_id),
       Lit("\" class=\"toc-link toc-sublink\" data-id=\""),
       Txt("endpoint_id", Escape(e.endpoint_id)), Lit("\">"),
       Txt("method", Escape(e.method)), Lit(" "),
       Txt("summary", Escape(ShortSummary(e, 36))), Lit("</a></li>") >>

TocTagParts(tag, entries) ==
    LET mine == TagEntries(entries, tag)
    IN  << << Lit("<li><a href=\"#"), Txt("tag_id", TagId(tag)),
              Lit("\" class=\"toc-link\" data-id=\""), Txt("tag_id", Escape(TagId(tag))),
              Lit("\">"), Txt("tag", Escape(tag)), Lit("</a></li>") >> >>
        \o [i \in 1..Len(mine) |-> TocLink(mine[i])]

TocParts(sorted_tags, entries) ==
    << <<Lit("<aside class=\"toc\">")>>,
       <<Lit("<p class=\"toc-title\">On this page</p>")>>,
       <<Lit("<nav class=\"toc-nav\">")>>,
       <<Lit("<ul class=\"toc-list\">")>>,
       <<Lit("<li><a href=\"#overview\" class=\"toc-link\" data-id=\"overview\">Overview</a></li>")>>,
       <<Lit("<li><a href=\"#overview-modules\" class=\"toc-link\" data-id=\"overview-modules\">Modules</a></li>")>> >>
    \o Flatten([i \in 1..Len(sorted_tags) |-> TocTagParts(sorted_tags[i], entries)])
    \o << <<Lit("</ul></nav></aside>")>> >>

\* The page template around the three joined blocks.  The stylesheet and the
\* script of the template (lines 571-699 and 709-793) interpolate nothing.
Page(title, sidebar_parts, main, toc_parts) ==
    IF IsError(main) THEN main
    ELSE [html |->
            << Lit("<!DOCTYPE html>\n<html lang=\"en\">\n<head>\n    <meta charset=\"UTF-8\">\n    <meta name=\"viewport\" content=\"width=device-width, initial-scale=1.0\">\n    <title>"),
               Txt("title", title),
               Lit(" - API Reference</title>\n    <style>[stylesheet]</style>\n</head>\n<body class=\"docs-body\">\n    "),
               Sub("sidebar_html", JoinNl(sidebar_parts)),
               Lit("\n    <div class=\"content-wrap\">\n        "),
               Sub("main_html", JoinNl(main.parts)),
               Lit("\n        "),
               Sub("toc_html", JoinNl(toc_parts)),
               Lit("\n    </div>\n    <script>[script]</script>\n</body>\n</html>") >>]

\* build_api_reference_html after its two grouping loops.
HtmlOfByTag(openapi_schema, base_url, title, by_tag, sorted_tags) ==
    IF IsError(by_tag) THEN by_tag
    ELSE Page(title,
              SidebarParts(title, sorted_tags, by_tag.entries),
              MainParts(Escape(GetText(Info(openapi_schema), "version")),
                        GetText(Info(openapi_schema), "description"),
                        sorted_tags, by_tag.entries, openapi_schema, base_url),
              TocParts(sorted_tags, by_tag.entries))

BuildApiReferenceHtml(openapi_schema, base_url) ==
    HtmlOfByTag(openapi_schema, base_url,
                Escape(IF HasKey(Info(openapi_schema), "title")
                       THEN Info(openapi_schema).title ELSE T_api_reference),
                ByTag(openapi_schema), SortedTagsOf(ByTag(openapi_schema)))

(***************************************************************************)
(* The documents the reference specification enumerates.                   *)
(***************************************************************************)
\* A string with markup in it.
Hostile == <<"<", "b", ">", "&", "\"", "x", "'">>

Benign == <<"o", "k">>

K_get == <<"g", "e", "t">>

K_post == <<"p", "o", "s", "t">>

\* A path-item key outside the fixed method list.
K_custom == <<"x", "-", "o", "p">>

K_hostile == <<"<", "x", ">">>

MT_multipart == <<"m", "u", "l", "t", "i", "p", "a", "r", "t", "/", "f", "o", "r", "m", "-", "d", "a", "t", "a">>

Merge(a, b) == [k \in DOMAIN a \cup DOMAIN b |-> IF k \in DOMAIN b THEN b[k] ELSE a[k]]

OpPlain == [summary |-> Benign]

OpTagged == [summary |-> Benign, tags |-> <<<<"A", "u", "t", "h">>, <<"M", "i", "s", "c">>>>]

\* The values an operation's security may have.
SecurityValues ==
    { <<>>,
      <<Mapping(<<>>)>>,
      <<Mapping(<<Entry(<<"B", "e", "a", "r", "e", "r", "A", "u", "t", "h">>, [list |-> <<>>])>>)>>,
      <<Mapping(<<Entry(<<"k">>, [list |-> <<<<"r", "e", "a", "d", ":", "B", "E", "A", "R", "E", "R">>>>])>>)>>,
      <<Mapping(<<Entry(<<"k">>, [list |-> <<<<"b", "e", "a">>, <<"r", "e", "r">>>>])>>)>>,
      <<Mapping(<<Entry(<<"k">>, Str(<<"B", "e", "a", "r", "e", "r">>))>>)>>,
      <<Str(<<"b", "e", "a", "r", "e", "r">>)>>,
      << Mapping(<<Entry(<<"k">>, [list |-> <<>>])>>),
         Mapping(<< Entry(<<"o", "a", "u", "t", "h">>, [list |-> <<<<"r", "e", "a", "d">>>>]),
                    Entry(<<"B", "e", "a", "r", "e", "r", "A", "u", "t", "h">>, [list |-> <<<<"x", ":", "b", "e", "a", "r", "e", "r">>>>]) >>) >> }

\* The values an operation's requestBody may have.
RequestBodyValues ==
    { EmptyDict,
      Str(<<"b", "o", "d", "y">>),
      [description |-> Benign],
      [content |-> Mapping(<<Entry(JsonMediaTypes[1], [schema |-> [ref |-> RefC(N_A)]])>>)],
      [content |-> Mapping(<<Entry(JsonMediaTypes[2], [schema |-> PStr])>>),
       description |-> Hostile],
      [content |-> Mapping(<<Entry(JsonMediaTypes[1], EmptyDict)>>)],
      [content |-> Mapping(<<Entry(MT_multipart, EmptyDict)>>)],
      [content |-> Mapping(<< Entry(MT_multipart, [schema |-> PStr]),
                              Entry(JsonMediaTypes[1], [schema |-> PStr]) >>)] }

SchemasPlain == [n \in {N_A} |-> WithDesc(Obj(<<Prop(N_p, PStrD)>>, <<N_p>>), D_A)]

SchemasHostile ==
    [n \in {N_A} |->
       Obj(<<Prop(Hostile, [type |-> Hostile, description |-> Hostile])>>, <<>>)]

RefDoc(schemas, info, paths) ==
    [schemas |-> schemas, definitions |-> <<>>, info |-> info, paths |-> Mapping(paths)]

InfoPlain == [title |-> <<"P", "e", "t", "s">>, version |-> <<"1", ".", "0">>]

\* One operation under one key of the path /a, over every security and body.
AuthBodyDocs ==
    LET ops == {OpPlain}
               \cup {Merge(OpPlain, [security |-> s]) : s \in SecurityValues}
               \cup {Merge(OpPlain, [requestBody |-> b]) : b \in RequestBodyValues}
               \cup {Merge(OpPlain, [security |-> s, requestBody |-> b]) :
                       s \in SecurityValues, b \in RequestBodyValues}
    IN  {RefDoc(SchemasPlain, InfoPlain, <<Entry(<<"/", "a">>, Mapping(<<Entry(k, op)>>))>>) :
           k \in {K_get, K_post, <<"p", "u", "t">>, <<"p", "a", "t", "c", "h">>, <<"d", "e", "l", "e", "t", "e">>}, op \in ops}

PathTexts ==
    { <<"/", "a", "/", "b">>, <<"/", "a", "-", "b">>, <<"/", "a", "_", "b">>, <<"/", "A", "/", "b">>, <<"/", "a", "/", "{", "b", "}">>, <<"/", "a", "/", "b", "/">>,
      <<"/", "U+00C9">>, <<"/", "U+2102">> }

PathItems ==
    { Mapping(<<Entry(K_get, OpPlain)>>),
      Mapping(<<Entry(K_post, OpTagged), Entry(K_get, OpPlain)>>),
      Mapping(<<Entry(K_custom, OpTagged)>>),
      Mapping(<<Entry(<<"o", "p", "t", "i", "o", "n", "s">>, OpPlain)>>) }

\* Two paths, in either insertion order.
TwoPathDocs ==
    {RefDoc(SchemasPlain, InfoPlain, <<Entry(p, i), Entry(q, j)>>) :
       p \in PathTexts, q \in PathTexts, i \in PathItems, j \in PathItems} \
    {RefDoc(SchemasPlain, InfoPlain, <<Entry(p, i), Entry(p, j)>>) :
       p \in PathTexts, i \in PathItems, j \in PathItems}

\* Documents whose strings are plain or carry markup, place by place.
TextDocs ==
    LET infos == {InfoPlain,
                  [title |-> Hostile, version |-> Hostile,
                   description |-> Hostile \o <<"\n">> \o Benign]}
        texts == {[summary |-> Benign, description |-> Benign \o <<"\n">> \o Benign],
                  [summary |-> Hostile, description |-> Hostile]}
        tags == {<<>>, <<Hostile>>}
        params == {<<>>,
                   <<[name |-> <<"i", "d">>, in |-> <<"p", "a", "t", "h">>, required |-> TRUE],
                     [name |-> <<"q">>, description |-> Benign \o <<"\n">> \o Benign]>>,
                   <<[name |-> Hostile, in |-> Hostile, description |-> Hostile]>>}
        responses == {<<>>,
                      <<Entry(<<"2", "0", "0">>,
                              [description |-> Benign,
                               content |-> Mapping(<<Entry(JsonMediaTypes[1],
                                                           [schema |-> [ref |-> RefC(N_A)]])>>)]),
                        Entry(<<"4", "0", "4">>, Str(<<"m", "i", "s", "s", "i", "n", "g">>))>>,
                      <<Entry(Hostile, [description |-> Hostile]),
                        Entry(<<"d", "e", "f", "a", "u", "l", "t">>, Str(Hostile))>>}
        bodies == {Null, [content |-> Mapping(<<Entry(JsonMediaTypes[1],
                                                      [schema |-> [ref |-> RefC(N_A)]])>>)]}
    IN  {RefDoc(s, i,
                <<Entry(p, Mapping(<<Entry(k,
                     Merge(Merge(t, IF g = <<>> THEN <<>> ELSE [tags |-> g]),
                           Merge(IF a = <<>> THEN <<>> ELSE [parameters |-> a],
                                 Merge(IF r = <<>> THEN <<>> ELSE [responses |-> Mapping(r)],
                                       IF IsNull(b) THEN <<>> ELSE [requestBody |-> b]))))>>))>>) :
           s \in {SchemasPlain, SchemasHostile}, i \in infos,
           p \in {<<"/", "a">>, <<"/", "<", "a", ">">>}, k \in {K_post, K_hostile},
           t \in texts, g \in tags, a \in params, r \in responses, b \in bodies}

\* Documents with a fragment that is not a mapping, no paths, or two operations.
OtherDocs ==
    { [schemas |-> <<>>, definitions |-> <<>>],
      RefDoc(<<>>, EmptyDict, <<>>),
      RefDoc(SchemasPlain, InfoPlain,
             <<Entry(<<"/", "a">>, Str(Benign)),
               Entry(<<"/", "b">>, Mapping(<<Entry(K_get, OpPlain)>>))>>),
      RefDoc(SchemasPlain, InfoPlain,
             <<Entry(<<"/", "a">>, Mapping(<<Entry(K_get, Str(Benign)),
                                         Entry(K_post, OpPlain)>>))>>),
      RefDoc(SchemasPlain, InfoPlain,
             <<Entry(<<"/", "a">>, Mapping(<<Entry(K_get,
                  [summary |-> Benign, parameters |-> <<Str(Benign)>>])>>))>>),
      RefDoc(SchemasPlain, InfoPlain,
             <<Entry(<<"/", "a">>, Mapping(<<
                  Entry(K_get, Merge(OpPlain,
                      [security |-> <<Mapping(<<Entry(<<"B", "e", "a", "r", "e", "r", "A", "u", "t", "h">>,
                                                      [list |-> <<>>])>>)>>])),
                  Entry(K_post, Merge(OpPlain,
                      [security |-> <<Mapping(<<Entry(<<"k">>,
                                                      [list |-> <<<<"B", "E", "A", "R", "E", "R">>>>])>>)>>]))
                  >>))>>) }

\* A schema with a property of its own type.
SchemasRecursive == [n \in {N_A} |-> Obj(<<Prop(N_p, PRefA)>>, <<>>)]

\* The responses of an operation whose 200 body is the schema A.
ResponsesOfA ==
    Mapping(<<Entry(<<"2", "0", "0">>,
                    [description |-> Benign,
                     content |-> Mapping(<<Entry(JsonMediaTypes[1],
                                                 [schema |-> [ref |-> RefC(N_A)]])>>)])>>)

\* Documents about grouping: a custom key beside get or post and without
\* them, several paths and methods inserted out of order, a recursive schema.
GroupingDocs ==
    { RefDoc(SchemasPlain, InfoPlain,
             <<Entry(<<"/", "a">>, Mapping(<<Entry(K_get, OpPlain), Entry(K_custom, OpTagged)>>))>>),
      RefDoc(SchemasPlain, InfoPlain,
             <<Entry(<<"/", "a">>, Mapping(<<Entry(K_custom, OpPlain), Entry(K_post, OpPlain)>>))>>),
      RefDoc(SchemasPlain, InfoPlain,
             <<Entry(<<"/", "a">>, Mapping(<<Entry(K_custom, [description |-> Benign]),
                                       Entry(<<"p", "u", "t">>, OpPlain)>>))>>),
      RefDoc(SchemasPlain, InfoPlain,
             <<Entry(<<"/", "b">>, Mapping(<<Entry(K_post, OpPlain), Entry(<<"d", "e", "l", "e", "t", "e">>, OpTagged),
                                       Entry(K_get, OpPlain)>>)),
               Entry(<<"/", "a">>, Mapping(<<Entry(<<"p", "a", "t", "c", "h">>, OpPlain), Entry(K_get, OpTagged),
                                       Entry(<<"p", "u", "t">>, OpPlain)>>))>>),
      RefDoc(SchemasPlain, InfoPlain,
             <<Entry(<<"/", "b">>, Mapping(<<Entry(<<"h", "e", "a", "d">>, OpPlain), Entry(<<"p", "u", "t">>, OpPlain)>>)),
               Entry(<<"/", "a">>, Mapping(<<Entry(<<"h", "e", "a", "d">>, OpPlain)>>))>>),
      RefDoc(SchemasPlain, InfoPlain,
             <<Entry(<<"/", "a">>, Mapping(<<Entry(K_get, Merge(OpPlain, [responses |-> ResponsesOfA]))>>))>>),
      RefDoc(SchemasRecursive, InfoPlain,
             <<Entry(<<"/", "a">>, Mapping(<<Entry(K_get, Merge(OpPlain, [responses |-> ResponsesOfA]))>>))>>) }

ReferenceDocs ==
    AuthBodyDocs \cup TwoPathDocs \cup TextDocs \cup OtherDocs \cup GroupingDocs

BaseUrls == {<<>>, <<"h", "t", "t", "p", ":", "/", "/", "h", "/">>}

(***************************************************************************)
(* The reference specification: a document, and calls of the two builders  *)
(* on it.                                                                  *)
(***************************************************************************)
InitReference ==
    /\ doc \in ReferenceDocs
    /\ call = [op |-> "none"]
    /\ out = Null

BuildApiReferenceDataCall ==
    \E base_url \in BaseUrls :
        /\ call.op = "none"
        /\ call' = [op |-> "build_api_reference_data", arg |-> base_url]
        /\ out' = BuildApiReferenceData(doc, base_url)
        /\ UNCHANGED doc

BuildApiReferenceHtmlCall ==
    \E base_url \in BaseUrls :
        /\ call.op = "none"
        /\ call' = [op |-> "build_api_reference_html", arg |-> base_url]
        /\ out' = BuildApiReferenceHtml(doc, base_url)
        /\ UNCHANGED doc

NextReference ==
    \/ BuildApiReferenceDataCall
    \/ BuildApiReferenceHtmlCall
    \/ Return

SpecReference == InitReference /\ [][NextReference]_vars

(***************************************************************************)
(* Claims about the two reference builders.                                *)
(***************************************************************************)
DataReturned == call.op = "build_api_reference_data" /\ ~IsError(out)

HtmlReturned == call.op = "build_api_reference_html" /\ ~IsError(out)

\* The endpoints of a payload, over all its tag groups.
AllEndpoints(payload) ==
    Flatten([i \in 1..Len(payload.tags) |-> payload.tags[i].endpoints])

\* The operations of the document that an endpoint of the payload stands for.
OpsOf(e) ==
    LET path_item == MappingGet(doc.paths, e.path)
    IN  {path_item.entries[i].value : i \in
           {i \in 1..Len(path_item.entries) :
              /\ UpperText(path_item.entries[i].name) = e.method
              /\ IsDict(path_item.entries[i].value)}}

\* The strings the page interpolates, at every depth.
RECURSIVE TxtItems(_)
TxtItems(items) ==
    UNION {IF HasKey(items[i], "txt") THEN {items[i]}
           ELSE IF HasKey(items[i], "html") THEN TxtItems(items[i].html)
           ELSE {} : i \in 1..Len(items)}

Entities ==
    {<<"&", "a", "m", "p", ";">>, <<"&", "l", "t", ";">>, <<"&", "g", "t", ";">>, <<"&", "q", "u", "o", "t", ";">>, <<"&", "#", "x", "2", "7", ";">>}

\* t is the html.escape of some string: it has no <, >, " or ', and every &
\* starts one of the five entities html.escape writes.
IsEscaped(t) ==
    \A i \in 1..Len(t) :
       /\ t[i] \notin {"<", ">", "\"", "'"}
       /\ t[i] = "&" =>
             \E en \in Entities :
                i + Len(en) - 1 <= Len(t) /\ SubSeq(t, i, i + Len(en) - 1) = en

\* C6: every string of the document that build_api_reference_html
\* interpolates into the page is HTML-escaped at the place it is interpolated.
C6_InterpolatedStringsEscaped ==
    HtmlReturned => \A it \in TxtItems(out.html) : IsEscaped(it.txt)

\* C7: two endpoints of the normalized output have the same endpoint_id only
\* if they have the same method and the same path.
C7_EndpointIdDistinguishes ==
    DataReturned =>
        LET es == AllEndpoints(out)
        IN  \A i, j \in 1..Len(es) :
               es[i].endpoint_id = es[j].endpoint_id =>
                   es[i].method = es[j].method /\ es[i].path = es[j].path

\* The slug part of an endpoint_id.
SlugPart(endpoint_id) == SubSeq(endpoint_id, Len(T_endpoint) + 1, Len(endpoint_id))

\* C8: endpoint_id is a function of (method, path), it contains only lowercase
\* alphanumerics, '-' and '_', and its slug part neither starts nor ends
\* with '-'.
C8_EndpointIdShape ==
    DataReturned =>
        LET es == AllEndpoints(out)
        IN  /\ \A i, j \in 1..Len(es) :
                  es[i].method = es[j].method /\ es[i].path = es[j].path =>
                      es[i].endpoint_id = es[j].endpoint_id
            /\ \A i \in 1..Len(es) :
                  LET id == es[i].endpoint_id
                      slug == SlugPart(id)
                  IN  /\ StartsWith(id, T_endpoint)
                      /\ \A k \in 1..Len(id) :
                            \/ id[k] \in {"-", "_"}
                            \/ IsAlnum(id[k]) /\ ~IsUpper(id[k])
                      /\ slug # <<>> => slug[1] # "-" /\ slug[Len(slug)] # "-"

\* The operation has a request body whose content has a JSON media type.
HasJsonRequestBody(op) ==
    /\ HasKey(op, "requestBody")
    /\ IsDict(op.requestBody)
    /\ HasKey(op.requestBody, "content")
    /\ \E k \in 1..Len(JsonMediaTypes) : MappingHas(op.requestBody.content, JsonMediaTypes[k])

\* C9: has_body of an endpoint is true if and only if its method is POST, PUT
\* or PATCH and its operation has a request body whose content contains
\* 'application/json' or 'application/json; charset=utf-8'.
C9_HasBodyIffJsonRequestBody ==
    DataReturned =>
        LET es == AllEndpoints(out)
        IN  \A i \in 1..Len(es) : \A op \in OpsOf(es[i]) :
               es[i].how_to_call.has_body
                   <=> (es[i].method \in BodyMethods /\ HasJsonRequestBody(op))

\* s contains sub, letter case ignored.
ContainsIgnoreCase(s, sub) ==
    \E i \in 0..(Len(s) - Len(sub)) :
       \A k \in 1..Len(sub) : LowerChar(s[i + k]) = LowerChar(sub[k])

\* Some entry of the security array is a mapping with a value whose string
\* form contains 'bearer', letter case ignored.
BearerInSomeValue(op) ==
    /\ HasKey(op, "security")
    /\ \E i \in 1..Len(op.security) :
          /\ IsMapping(op.security[i])
          /\ \E j \in 1..Len(op.security[i].entries) :
                ContainsIgnoreCase(PyStr(op.security[i].entries[j].value), T_bearer)

\* Some scheme name (a key of a security entry) contains 'bearer'.
BearerInSomeName(op) ==
    /\ HasKey(op, "security")
    /\ \E i \in 1..Len(op.security) :
          /\ IsMapping(op.security[i])
          /\ \E j \in 1..Len(op.security[i].entries) :
                ContainsIgnoreCase(op.security[i].entries[j].name, T_bearer)

\* C10: needs_auth of an operation is true if and only if some entry of its
\* security array is a mapping with a value whose string form contains
\* 'bearer' case-insensitively; the scheme names play no part.
C10_NeedsAuthIffBearerValue ==
    DataReturned =>
        LET es == AllEndpoints(out)
        IN  \A i \in 1..Len(es) : \A op \in OpsOf(es[i]) :
               es[i].how_to_call.needs_auth <=> BearerInSomeValue(op)

\* One payload with an endpoint that needs no auth although a scheme name
\* contains 'bearer', and an endpoint that needs auth because a value
\* contains 'BEARER' and neither 'Bearer' nor 'bearer'.
C10_Witness ==
    /\ DataReturned
    /\ LET es == AllEndpoints(out)
       IN  /\ \E i \in 1..Len(es) : \E op \in OpsOf(es[i]) :
                 /\ ~es[i].how_to_call.needs_auth
                 /\ BearerInSomeName(op)
           /\ \E i \in 1..Len(es) : \E op \in OpsOf(es[i]) :
                 /\ es[i].how_to_call.needs_auth
                 /\ \A k \in 1..Len(op.security) :
                       \A j \in 1..Len(op.security[k].entries) :
                          LET sv == PyStr(op.security[k].entries[j].value)
                          IN  ~Contains(sv, T_Bearer) /\ ~Contains(sv, T_bearer)

(***************************************************************************)
(* Claims about grouping: malformed fragments, custom keys, order, and the *)
(* agreement of the two builders.                                          *)
(***************************************************************************)
DataCalled == call.op = "build_api_reference_data"

HtmlCalled == call.op = "build_api_reference_html"

\* The entries of the document's paths.
PathEntries == IF HasKey(doc, "paths") THEN doc.paths.entries ELSE <<>>

\* The operations of a path item under the fixed methods, as <<key, op>> pairs.
StandardOps(path_item) ==
    {<<StandardMethods[k], MappingGet(path_item, StandardMethods[k])>> :
       k \in {k \in 1..Len(StandardMethods) : MappingHas(path_item, StandardMethods[k])}}

\* A path item, an operation value or a parameter entry of the document is
\* not a mapping.
HasMalformedFragment ==
    \E i \in 1..Len(PathEntries) :
       \/ ~IsMapping(PathEntries[i].value)
       \/ /\ IsMapping(PathEntries[i].value)
          /\ \E ko \in StandardOps(PathEntries[i].value) :
                \/ ~IsDict(ko[2])
                \/ /\ IsDict(ko[2])
                   /\ \E p \in 1..Len(GetList(ko[2], "parameters")) :
                         ~IsDict(ko[2].parameters[p])

\* The well-formed operations of the document under the fixed methods, as
\* <<method, path>> pairs.
WellFormedOperations ==
    UNION {IF IsMapping(PathEntries[i].value)
           THEN {<<UpperText(ko[1]), PathEntries[i].name>> :
                   ko \in {ko \in StandardOps(PathEntries[i].value) : IsDict(ko[2])}}
           ELSE {} : i \in 1..Len(PathEntries)}

\* The strings a block of the page interpolates, in the order of the page.
RECURSIVE TxtSeq(_)
TxtSeq(items) ==
    Flatten([i \in 1..Len(items) |->
               IF HasKey(items[i], "txt") THEN <<items[i]>>
               ELSE IF HasKey(items[i], "html") THEN TxtSeq(items[i].html)
               ELSE <<>>])

\* The sidebar of a page: its tag buttons and, under each, its endpoint links.
SidebarTxt(page) ==
    SelectSeq(TxtSeq(SelectSeq(page.html, LAMBDA it : HasKey(it, "html") /\ it.site = "sidebar_html")),
              LAMBDA it : it.site \in {"tag", "path", "method"})

\* The endpoints a sequence of sidebar strings lists, each with the tag it is
\* under, in order (tag and path as escaped on the page).
EndpointsOfSidebar(sel) ==
    LET at == SelectSeq([k \in 1..Len(sel) |-> k], LAMBDA k : sel[k].site = "method")
    IN  [n \in 1..Len(at) |->
           [tag |-> sel[SetMax({j \in 1..at[n] : sel[j].site = "tag"})].txt,
            path |-> sel[at[n] - 1].txt,
            method |-> sel[at[n]].txt]]

HtmlEndpoints(page) == EndpointsOfSidebar(SidebarTxt(page))

\* The endpoints a payload lists, each with its tag, in order (tag and path
\* escaped as the page writes them).
DataEndpoints(payload) ==
    Flatten([i \in 1..Len(payload.tags) |->
               [j \in 1..Len(payload.tags[i].endpoints) |->
                  [tag |-> Escape(payload.tags[i].name),
                   path |-> Escape(payload.tags[i].endpoints[j].path),
                   method |-> payload.tags[i].endpoints[j].method]]])

\* The endpoints of the result of the call in progress.
OutEndpoints == IF DataCalled THEN DataEndpoints(out) ELSE HtmlEndpoints(out)

\* C11: for a document in which a path item, an operation value or a
\* parameter entry is not a mapping, build_api_reference_data and
\* build_api_reference_html return a result, and the result lists every
\* well-formed operation of the document.
C11_MalformedFragmentSkipped ==
    (DataCalled \/ HtmlCalled) /\ HasMalformedFragment =>
        /\ ~IsError(out)
        /\ \A mp \in WellFormedOperations :
              \E n \in 1..Len(OutEndpoints) :
                 /\ OutEndpoints[n].method = mp[1]
                 /\ OutEndpoints[n].path = Escape(mp[2])

\* The keys of a path item outside the fixed method list whose value is a
\* mapping carrying a summary or a description, as <<key, op>> pairs.
CustomOps(path_item) ==
    {<<path_item.entries[k].name, path_item.entries[k].value>> :
       k \in {k \in 1..Len(path_item.entries) :
                /\ \A n \in 1..Len(StandardMethods) :
                      LowerText(path_item.entries[k].name) # StandardMethods[n]
                /\ IsDict(path_item.entries[k].value)
                /\ \/ HasKey(path_item.entries[k].value, "summary")
                   \/ HasKey(path_item.entries[k].value, "description")}}

\* The path item defines a get or a post operation.
HasGetOrPost(path_item) == MappingHas(path_item, K_get) \/ MappingHas(path_item, K_post)

\* C12: every key of a path item outside the fixed method list whose value is
\* a mapping with a summary or a description is an endpoint of the group of
\* its first tag (or Other), also when the path item defines get or post.
C12_CustomKeysEmitted ==
    DataReturned =>
        \A i \in 1..Len(PathEntries) :
           IsMapping(PathEntries[i].value) =>
              \A ko \in CustomOps(PathEntries[i].value) :
                 \E n \in 1..Len(DataEndpoints(out)) :
                    /\ DataEndpoints(out)[n].tag = Escape(OpTag(ko[2]))
                    /\ DataEndpoints(out)[n].path = Escape(PathEntries[i].name)
                    /\ DataEndpoints(out)[n].method = UpperText(ko[1])

\* The place of a method in the order GET, POST, PUT, PATCH, DELETE, OPTIONS,
\* HEAD.
MethodRank(method) ==
    CHOOSE k \in 1..Len(StandardMethods) : UpperText(StandardMethods[k]) = method

\* The endpoints of one tag group of a payload whose method is one of the
\* fixed list.
StandardEndpoints(group) ==
    SelectSeq(group.endpoints,
              LAMBDA e : \E k \in 1..Len(StandardMethods) :
                            UpperText(StandardMethods[k]) = e.method)

\* e comes no later than f: by path, then by method.
InOrder(e, f) ==
    \/ TextLess(e.path, f.path)
    \/ e.path = f.path /\ MethodRank(e.method) <= MethodRank(f.method)

\* C13: in every tag group the endpoints of the fixed methods are in
\* ascending order of path and, for one path, in the order GET, POST, PUT,
\* PATCH, DELETE, OPTIONS, HEAD; and the tag groups are in ascending order.
\* (The result is a function of the document: the same document gives the
\* same groups on every run.)
C13_GroupsOrdered ==
    DataReturned =>
        /\ \A i, j \in 1..Len(out.tags) :
              i < j => TextLess(out.tags[i].name, out.tags[j].name)
        /\ \A g \in 1..Len(out.tags) :
              \A i, j \in 1..Len(StandardEndpoints(out.tags[g])) :
                 i < j => InOrder(StandardEndpoints(out.tags[g])[i],
                                  StandardEndpoints(out.tags[g])[j])

\* C14: build_api_reference_html lists the same (method, path) pairs under
\* the same tag names, in the same order, as build_api_reference_data does
\* for the same document and base URL; neither returns where the other raises.
C14_BuildersAgree ==
    HtmlCalled =>
        LET data == BuildApiReferenceData(doc, call.arg)
        IN  /\ IsError(out) <=> IsError(data)
            /\ ~IsError(out) /\ ~IsError(data) =>
                  HtmlEndpoints(out) = DataEndpoints(data)

(***************************************************************************)
(* The template examples (_template_example of src/app/docs_agent.py).     *)
(* An example is a str: the sequence of its characters.                    *)
(***************************************************************************)
\* The branch of the stack "vanilla".
TemplateVanilla(url, method_upper, needs_auth, has_body) ==
    LET headers == (IF needs_auth THEN <<<<" ", " ", " ", " ", "\"", "A", "u", "t", "h", "o", "r", "i", "z", "a", "t", "i", "o", "n", "\"", ":", " ", "\"", "B", "e", "a", "r", "e", "r", " ", "\"", " ", "+", " ", "t", "o", "k", "e", "n", ",">>>> ELSE <<>>)
                   \o (IF has_body THEN <<<<" ", " ", " ", " ", "\"", "C", "o", "n", "t", "e", "n", "t", "-", "T", "y", "p", "e", "\"", ":", " ", "\"", "a", "p", "p", "l", "i", "c", "a", "t", "i", "o", "n", "/", "j", "s", "o", "n", "\"", ",">>>> ELSE <<>>)
        headers_str == Flatten([i \in 1..Len(headers) |->
                                  IF i = 1 THEN headers[i] ELSE <<"\n">> \o headers[i]])
        body_line == IF has_body THEN <<"\n", " ", " ", "b", "o", "d", "y", ":", " ", "J", "S", "O", "N", ".", "s", "t", "r", "i", "n", "g", "i", "f", "y", "(", "{", " ", "/", "*", " ", "s", "e", "e", " ", "r", "e", "q", "u", "e", "s", "t", " ", "b", "o", "d", "y", " ", "s", "c", "h", "e", "m", "a", " ", "*", "/", " ", "}", ")", ",">>
                     ELSE <<>>
        mid == IF headers # <<>> \/ has_body
               THEN <<"\n", " ", " ", "h", "e", "a", "d", "e", "r", "s", ":", " ", "{", "\n">> \o headers_str \o <<"\n", " ", " ", "}", ",">> \o body_line
               ELSE <<>>
    IN  <<"/", "/", " ", "S", "t", "o", "r", "e", " ", "y", "o", "u", "r", " ", "J", "W", "T", " ", "a", "f", "t", "e", "r", " ", "l", "o", "g", "i", "n", " ", "(", "e", ".", "g", ".", " ", "f", "r", "o", "m", " ", "/", "a", "p", "i", "/", "a", "u", "t", "h", "/", "a", "d", "m", "i", "n", "/", "v", "e", "r", "i", "f", "y", "-", "c", "o", "d", "e", ")", "\n">>
        \o <<"c", "o", "n", "s", "t", " ", "t", "o", "k", "e", "n", " ", "=", " ", "\"", "Y", "O", "U", "R", "_", "J", "W", "T", "_", "T", "O", "K", "E", "N", "\"", ";", "\n">>
        \o <<"c", "o", "n", "s", "t", " ", "u", "r", "l", " ", "=", " ", "\"">> \o url \o <<"\"", ";", "\n", "\n">>
        \o <<"f", "e", "t", "c", "h", "(", "u", "r", "l", ",", " ", "{", "\n">>
        \o <<" ", " ", "m", "e", "t", "h", "o", "d", ":", " ", "\"">> \o method_upper \o <<"\"", ",">> \o mid \o <<"\n">>
        \o <<"}", ")", "\n">>
        \o <<" ", " ", ".", "t", "h", "e", "n", "(", "(", "r", "e", "s", ")", " ", "=", ">", " ", "r", "e", "s", ".", "j", "s", "o", "n", "(", ")", ")", "\n">>
        \o <<" ", " ", ".", "t", "h", "e", "n", "(", "(", "d", "a", "t", "a", ")", " ", "=", ">", " ", "c", "o", "n", "s", "o", "l", "e", ".", "l", "o", "g", "(", "d", "a", "t", "a", ")", ")", "\n">>
        \o <<" ", " ", ".", "c", "a", "t", "c", "h", "(", "(", "e", "r", "r", ")", " ", "=", ">", " ", "c", "o", "n", "s", "o", "l", "e", ".", "e", "r", "r", "o", "r", "(", "e", "r", "r", ")", ")", ";">>

\* The branch of the stack "react-fetch".
TemplateReactFetch(url, method_upper, needs_auth, has_body) ==
    LET body_line == IF has_body THEN <<"\n", " ", " ", " ", " ", " ", " ", "b", "o", "d", "y", ":", " ", "J", "S", "O", "N", ".", "s", "t", "r", "i", "n", "g", "i", "f", "y", "(", "p", "a", "y", "l", "o", "a", "d", ")", ",">> ELSE <<>>
        auth_headers == IF needs_auth
                        THEN <<"\n", " ", " ", " ", " ", " ", " ", "h", "e", "a", "d", "e", "r", "s", ":", " ", "{", " ", ".", ".", ".", "h", "e", "a", "d", "e", "r", "s", ",", " ", "\"", "A", "u", "t", "h", "o", "r", "i", "z", "a", "t", "i", "o", "n", "\"", ":", " ", "U+0060", "B", "e", "a", "r", "e", "r", " ", "$", "{", "t", "o", "k", "e", "n", "}", "U+0060", " ", "}", ",">>
                        ELSE <<"\n", " ", " ", " ", " ", " ", " ", "h", "e", "a", "d", "e", "r", "s", ",">>
    IN  <<"/", "/", " ", "I", "n", " ", "y", "o", "u", "r", " ", "c", "o", "m", "p", "o", "n", "e", "n", "t", ":", " ", "g", "e", "t", " ", "t", "o", "k", "e", "n", " ", "f", "r", "o", "m", " ", "a", "u", "t", "h", " ", "c", "o", "n", "t", "e", "x", "t", " ", "o", "r", " ", "s", "t", "a", "t", "e", "\n">>
        \o <<"c", "o", "n", "s", "t", " ", "t", "o", "k", "e", "n", " ", "=", " ", "\"", "Y", "O", "U", "R", "_", "J", "W", "T", "\"", ";", " ", "/", "/", " ", "e", ".", "g", ".", " ", "f", "r", "o", "m", " ", "l", "o", "g", "i", "n", " ", "r", "e", "s", "p", "o", "n", "s", "e", "\n">>
        \o <<"c", "o", "n", "s", "t", " ", "h", "e", "a", "d", "e", "r", "s", " ", "=", " ", "{", " ", "\"", "C", "o", "n", "t", "e", "n", "t", "-", "T", "y", "p", "e", "\"", ":", " ", "\"", "a", "p", "p", "l", "i", "c", "a", "t", "i", "o", "n", "/", "j", "s", "o", "n", "\"", " ", "}", ";", "\n", "\n">>
        \o <<"c", "o", "n", "s", "t", " ", "r", "e", "s", "p", "o", "n", "s", "e", " ", "=", " ", "a", "w", "a", "i", "t", " ", "f", "e", "t", "c", "h", "(", "\"">> \o url \o <<"\"", ",", " ", "{", "\n">>
        \o <<" ", " ", "m", "e", "t", "h", "o", "d", ":", " ", "\"">> \o method_upper \o <<"\"", ",">> \o auth_headers \o body_line \o <<"\n">>
        \o <<"}", ")", ";", "\n">>
        \o <<"c", "o", "n", "s", "t", " ", "d", "a", "t", "a", " ", "=", " ", "a", "w", "a", "i", "t", " ", "r", "e", "s", "p", "o", "n", "s", "e", ".", "j", "s", "o", "n", "(", ")", ";", "\n">>
        \o <<"i", "f", " ", "(", "!", "r", "e", "s", "p", "o", "n", "s", "e", ".", "o", "k", ")", " ", "t", "h", "r", "o", "w", " ", "n", "e", "w", " ", "E", "r", "r", "o", "r", "(", "d", "a", "t", "a", "?", ".", "m", "e", "s", "s", "a", "g", "e", " ", "|", "|", " ", "\"", "R", "e", "q", "u", "e", "s", "t", " ", "f", "a", "i", "l", "e", "d", "\"", ")", ";">>

\* The branch of the stack "react-axios": the base URL and the path are
\* written apart, the method is the name of the axios function.
TemplateReactAxios(base, method_lower, path, needs_auth, has_body) ==
    LET auth == IF needs_auth THEN <<"\n", " ", " ", "h", "e", "a", "d", "e", "r", "s", ":", " ", "{", " ", "A", "u", "t", "h", "o", "r", "i", "z", "a", "t", "i", "o", "n", ":", " ", "U+0060", "B", "e", "a", "r", "e", "r", " ", "$", "{", "t", "o", "k", "e", "n", "}", "U+0060", " ", "}", ",">> ELSE <<>>
        body_arg == IF has_body THEN <<"\n", " ", " ", "d", "a", "t", "a", ":", " ", "p", "a", "y", "l", "o", "a", "d", ",">> ELSE <<>>
    IN  <<"i", "m", "p", "o", "r", "t", " ", "a", "x", "i", "o", "s", " ", "f", "r", "o", "m", " ", "\"", "a", "x", "i", "o", "s", "\"", ";", "\n", "\n">>
        \o <<"c", "o", "n", "s", "t", " ", "t", "o", "k", "e", "n", " ", "=", " ", "\"", "Y", "O", "U", "R", "_", "J", "W", "T", "\"", ";", "\n">>
        \o <<"c", "o", "n", "s", "t", " ", "a", "p", "i", " ", "=", " ", "a", "x", "i", "o", "s", ".", "c", "r", "e", "a", "t", "e", "(", "{", "\n">>
        \o <<" ", " ", "b", "a", "s", "e", "U", "R", "L", ":", " ", "\"">> \o base \o <<"\"", ",">> \o auth \o <<"\n">>
        \o <<"}", ")", ";", "\n", "\n">>
        \o <<"c", "o", "n", "s", "t", " ", "{", " ", "d", "a", "t", "a", " ", "}", " ", "=", " ", "a", "w", "a", "i", "t", " ", "a", "p", "i", ".">> \o method_lower \o <<"(", "\"">> \o path \o <<"\"">>
        \o body_arg \o <<")", ";">>

\* The branch of the stack "vue3".
TemplateVue3(url, method_upper, needs_auth, has_body) ==
    LET body_arg == IF has_body THEN <<",", "\n", " ", " ", " ", " ", "b", "o", "d", "y", ":", " ", "J", "S", "O", "N", ".", "s", "t", "r", "i", "n", "g", "i", "f", "y", "(", "p", "a", "y", "l", "o", "a", "d", ")">> ELSE <<>>
        auth_line == IF needs_auth THEN <<"\n", " ", " ", " ", " ", " ", " ", "\"", "A", "u", "t", "h", "o", "r", "i", "z", "a", "t", "i", "o", "n", "\"", ":", " ", "U+0060", "B", "e", "a", "r", "e", "r", " ", "$", "{", "t", "o", "k", "e", "n", "}", "\"", ",">> ELSE <<>>
    IN  <<"/", "/", " ", "I", "n", " ", "s", "e", "t", "u", "p", "(", ")", ":", " ", "t", "o", "k", "e", "n", " ", "f", "r", "o", "m", " ", "p", "i", "n", "i", "a", "/", "s", "t", "o", "r", "e", " ", "o", "r", " ", "i", "n", "j", "e", "c", "t", "\n">>
        \o <<"c", "o", "n", "s", "t", " ", "t", "o", "k", "e", "n", " ", "=", " ", "r", "e", "f", "(", "\"", "Y", "O", "U", "R", "_", "J", "W", "T", "\"", ")", ";", "\n">>
        \o <<"c", "o", "n", "s", "t", " ", "u", "r", "l", " ", "=", " ", "\"">> \o url \o <<"\"", ";", "\n", "\n">>
        \o <<"c", "o", "n", "s", "t", " ", "r", "e", "s", "p", "o", "n", "s", "e", " ", "=", " ", "a", "w", "a", "i", "t", " ", "f", "e", "t", "c", "h", "(", "u", "r", "l", ",", " ", "{", "\n">>
        \o <<" ", " ", "m", "e", "t", "h", "o", "d", ":", " ", "\"">> \o method_upper \o <<"\"", ",", "\n">>
        \o <<" ", " ", "h", "e", "a", "d", "e", "r", "s", ":", " ", "{", "\n">>
        \o <<" ", " ", " ", " ", "\"", "C", "o", "n", "t", "e", "n", "t", "-", "T", "y", "p", "e", "\"", ":", " ", "\"", "a", "p", "p", "l", "i", "c", "a", "t", "i", "o", "n", "/", "j", "s", "o", "n", "\"", ",">> \o auth_line \o <<"\n">>
        \o <<" ", " ", "}">> \o body_arg \o <<"\n">>
        \o <<"}", ")", ";", "\n">>
        \o <<"c", "o", "n", "s", "t", " ", "d", "a", "t", "a", " ", "=", " ", "a", "w", "a", "i", "t", " ", "r", "e", "s", "p", "o", "n", "s", "e", ".", "j", "s", "o", "n", "(", ")", ";">>

\* The branch of the stack "nextjs".
TemplateNextjs(url, method_upper, needs_auth, has_body) ==
    LET body_line == IF has_body THEN <<"\n", " ", " ", "b", "o", "d", "y", ":", " ", "J", "S", "O", "N", ".", "s", "t", "r", "i", "n", "g", "i", "f", "y", "(", "p", "a", "y", "l", "o", "a", "d", ")", ",">> ELSE <<>>
        auth_headers == IF needs_auth THEN <<"\n", " ", " ", " ", " ", "A", "u", "t", "h", "o", "r", "i", "z", "a", "t", "i", "o", "n", ":", " ", "U+0060", "B", "e", "a", "r", "e", "r", " ", "$", "{", "t", "o", "k", "e", "n", "}", "U+0060", ",">> ELSE <<>>
    IN  <<"/", "/", " ", "S", "e", "r", "v", "e", "r", " ", "A", "c", "t", "i", "o", "n", " ", "o", "r", " ", "r", "o", "u", "t", "e", " ", "h", "a", "n", "d", "l", "e", "r", ":", " ", "p", "a", "s", "s", " ", "t", "o", "k", "e", "n", " ", "f", "r", "o", "m", " ", "s", "e", "s", "s", "i", "o", "n", "/", "c", "o", "o", "k", "i", "e", "s", "\n">>
        \o <<"c", "o", "n", "s", "t", " ", "t", "o", "k", "e", "n", " ", "=", " ", "\"", "Y", "O", "U", "R", "_", "J", "W", "T", "\"", ";", "\n">>
        \o <<"c", "o", "n", "s", "t", " ", "r", "e", "s", " ", "=", " ", "a", "w", "a", "i", "t", " ", "f", "e", "t", "c", "h", "(", "\"">> \o url \o <<"\"", ",", " ", "{", "\n">>
        \o <<" ", " ", "m", "e", "t", "h", "o", "d", ":", " ", "\"">> \o method_upper \o <<"\"", ",", "\n">>
        \o <<" ", " ", "h", "e", "a", "d", "e", "r", "s", ":", " ", "{", "\n">>
        \o <<" ", " ", " ", " ", "\"", "C", "o", "n", "t", "e", "n", "t", "-", "T", "y", "p", "e", "\"", ":", " ", "\"", "a", "p", "p", "l", "i", "c", "a", "t", "i", "o", "n", "/", "j", "s", "o", "n", "\"", ",">> \o auth_headers \o <<"\n">>
        \o <<" ", " ", "}", ",">> \o body_line \o <<"\n">>
        \o <<"}", ")", ";", "\n">>
        \o <<"c", "o", "n", "s", "t", " ", "d", "a", "t", "a", " ", "=", " ", "a", "w", "a", "i", "t", " ", "r", "e", "s", ".", "j", "s", "o", "n", "(", ")", ";">>

\* The branch of the stack "angular".
TemplateAngular(url, method_upper, needs_auth, has_body) ==
    LET body_line == IF has_body THEN <<"\n", " ", " ", " ", " ", "b", "o", "d", "y", ":", " ", "p", "a", "y", "l", "o", "a", "d", ",">> ELSE <<>>
        auth_headers == IF needs_auth
                        THEN <<"\n", " ", " ", " ", " ", "\"", "A", "u", "t", "h", "o", "r", "i", "z", "a", "t", "i", "o", "n", "\"", ":", " ", "U+0060", "B", "e", "a", "r", "e", "r", " ", "$", "{", "t", "h", "i", "s", ".", "a", "u", "t", "h", "S", "e", "r", "v", "i", "c", "e", ".", "g", "e", "t", "T", "o", "k", "e", "n", "(", ")", "}", "U+0060", ",">>
                        ELSE <<>>
    IN  <<"/", "/", " ", "I", "n", " ", "y", "o", "u", "r", " ", "s", "e", "r", "v", "i", "c", "e", ":", " ", "i", "n", "j", "e", "c", "t", " ", "H", "t", "t", "p", "C", "l", "i", "e", "n", "t", " ", "a", "n", "d", " ", "A", "u", "t", "h", "S", "e", "r", "v", "i", "c", "e", "\n">>
        \o <<"c", "o", "n", "s", "t", " ", "u", "r", "l", " ", "=", " ", "\"">> \o url \o <<"\"", ";", "\n">>
        \o <<"t", "h", "i", "s", ".", "h", "t", "t", "p", ".", "r", "e", "q", "u", "e", "s", "t", "<", "Y", "o", "u", "r", "R", "e", "s", "p", "o", "n", "s", "e", ">", "(", "{", "\n">>
        \o <<" ", " ", "m", "e", "t", "h", "o", "d", ":", " ", "\"">> \o method_upper \o <<"\"", ",", "\n">>
        \o <<" ", " ", "u", "r", "l", ",", "\n">>
        \o <<" ", " ", "h", "e", "a", "d", "e", "r", "s", ":", " ", "{", " ", "\"", "C", "o", "n", "t", "e", "n", "t", "-", "T", "y", "p", "e", "\"", ":", " ", "\"", "a", "p", "p", "l", "i", "c", "a", "t", "i", "o", "n", "/", "j", "s", "o", "n", "\"">> \o auth_headers \o <<" ", "}", ",">>
        \o body_line \o <<"\n">>
        \o <<"}", ")", ".", "s", "u", "b", "s", "c", "r", "i", "b", "e", "(", "{", " ", "n", "e", "x", "t", ":", " ", "(", "d", "a", "t", "a", ")", " ", "=", ">", " ", ".", ".", ".", ",", " ", "e", "r", "r", "o", "r", ":", " ", "(", "e", "r", "r", ")", " ", "=", ">", " ", ".", ".", ".", " ", "}", ")", ";">>

\* The branch of the stack "svelte".
TemplateSvelte(url, method_upper, needs_auth, has_body) ==
    LET body_line == IF has_body THEN <<",", "\n", " ", " ", " ", " ", "b", "o", "d", "y", ":", " ", "J", "S", "O", "N", ".", "s", "t", "r", "i", "n", "g", "i", "f", "y", "(", "p", "a", "y", "l", "o", "a", "d", ")">> ELSE <<>>
        auth_line == IF needs_auth THEN <<"\n", " ", " ", " ", " ", " ", " ", "\"", "A", "u", "t", "h", "o", "r", "i", "z", "a", "t", "i", "o", "n", "\"", ":", " ", "U+0060", "B", "e", "a", "r", "e", "r", " ", "$", "{", "t", "o", "k", "e", "n", "}", "U+0060", ",">> ELSE <<>>
    IN  <<"/", "/", " ", "I", "n", " ", "y", "o", "u", "r", " ", "c", "o", "m", "p", "o", "n", "e", "n", "t", ":", " ", "t", "o", "k", "e", "n", " ", "f", "r", "o", "m", " ", "s", "t", "o", "r", "e", " ", "o", "r", " ", "p", "r", "o", "p", "\n">>
        \o <<"l", "e", "t", " ", "t", "o", "k", "e", "n", " ", "=", " ", "\"", "Y", "O", "U", "R", "_", "J", "W", "T", "\"", ";", "\n">>
        \o <<"c", "o", "n", "s", "t", " ", "u", "r", "l", " ", "=", " ", "\"">> \o url \o <<"\"", ";", "\n">>
        \o <<"c", "o", "n", "s", "t", " ", "r", "e", "s", " ", "=", " ", "a", "w", "a", "i", "t", " ", "f", "e", "t", "c", "h", "(", "u", "r", "l", ",", " ", "{", "\n">>
        \o <<" ", " ", "m", "e", "t", "h", "o", "d", ":", " ", "\"">> \o method_upper \o <<"\"", ",", "\n">>
        \o <<" ", " ", "h", "e", "a", "d", "e", "r", "s", ":", " ", "{", "\n">>
        \o <<" ", " ", " ", " ", "\"", "C", "o", "n", "t", "e", "n", "t", "-", "T", "y", "p", "e", "\"", ":", " ", "\"", "a", "p", "p", "l", "i", "c", "a", "t", "i", "o", "n", "/", "j", "s", "o", "n", "\"", ",">> \o auth_line \o <<"\n">>
        \o <<" ", " ", "}">> \o body_line \o <<"\n">>
        \o <<"}", ")", ";", "\n">>
        \o <<"c", "o", "n", "s", "t", " ", "d", "a", "t", "a", " ", "=", " ", "a", "w", "a", "i", "t", " ", "r", "e", "s", ".", "j", "s", "o", "n", "(", ")", ";">>

\* The branch of the stack "react-native".
TemplateReactNative(url, method_upper, needs_auth, has_body) ==
    LET body_line == IF has_body THEN <<"\n", " ", " ", " ", " ", " ", " ", "b", "o", "d", "y", ":", " ", "J", "S", "O", "N", ".", "s", "t", "r", "i", "n", "g", "i", "f", "y", "(", "p", "a", "y", "l", "o", "a", "d", ")", ",">> ELSE <<>>
        auth_headers == IF needs_auth
                        THEN <<"\n", " ", " ", " ", " ", " ", " ", "h", "e", "a", "d", "e", "r", "s", ":", " ", "{", " ", ".", ".", ".", "h", "e", "a", "d", "e", "r", "s", ",", " ", "A", "u", "t", "h", "o", "r", "i", "z", "a", "t", "i", "o", "n", ":", " ", "U+0060", "B", "e", "a", "r", "e", "r", " ", "$", "{", "t", "o", "k", "e", "n", "}", "U+0060", " ", "}", ",">>
                        ELSE <<"\n", " ", " ", " ", " ", " ", " ", "h", "e", "a", "d", "e", "r", "s", ",">>
    IN  <<"/", "/", " ", "T", "o", "k", "e", "n", " ", "f", "r", "o", "m", " ", "A", "s", "y", "n", "c", "S", "t", "o", "r", "a", "g", "e", " ", "o", "r", " ", "a", "u", "t", "h", " ", "c", "o", "n", "t", "e", "x", "t", "\n">>
        \o <<"c", "o", "n", "s", "t", " ", "t", "o", "k", "e", "n", " ", "=", " ", "\"", "Y", "O", "U", "R", "_", "J", "W", "T", "\"", ";", "\n">>
        \o <<"c", "o", "n", "s", "t", " ", "h", "e", "a", "d", "e", "r", "s", " ", "=", " ", "{", " ", "\"", "C", "o", "n", "t", "e", "n", "t", "-", "T", "y", "p", "e", "\"", ":", " ", "\"", "a", "p", "p", "l", "i", "c", "a", "t", "i", "o", "n", "/", "j", "s", "o", "n", "\"", " ", "}", ";", "\n", "\n">>
        \o <<"c", "o", "n", "s", "t", " ", "r", "e", "s", "p", "o", "n", "s", "e", " ", "=", " ", "a", "w", "a", "i", "t", " ", "f", "e", "t", "c", "h", "(", "\"">> \o url \o <<"\"", ",", " ", "{", "\n">>
        \o <<" ", " ", "m", "e", "t", "h", "o", "d", ":", " ", "\"">> \o method_upper \o <<"\"", ",">> \o auth_headers \o body_line \o <<"\n">>
        \o <<"}", ")", ";", "\n">>
        \o <<"c", "o", "n", "s", "t", " ", "d", "a", "t", "a", " ", "=", " ", "a", "w", "a", "i", "t", " ", "r", "e", "s", "p", "o", "n", "s", "e", ".", "j", "s", "o", "n", "(", ")", ";">>

\* The branch of the stack "flutter".
TemplateFlutter(url, method_upper, needs_auth, has_body) ==
    LET body_line == IF has_body THEN <<"\n", " ", " ", "b", "o", "d", "y", ":", " ", "j", "s", "o", "n", "E", "n", "c", "o", "d", "e", "(", "p", "a", "y", "l", "o", "a", "d", ")", ",">> ELSE <<>>
        auth_line == IF needs_auth THEN <<"\n", " ", " ", "'", "A", "u", "t", "h", "o", "r", "i", "z", "a", "t", "i", "o", "n", "'", ":", " ", "'", "B", "e", "a", "r", "e", "r", " ", "$", "t", "o", "k", "e", "n", "'", ",">> ELSE <<>>
    IN  <<"/", "/", " ", "t", "o", "k", "e", "n", " ", "f", "r", "o", "m", " ", "y", "o", "u", "r", " ", "a", "u", "t", "h", " ", "s", "t", "a", "t", "e", " ", "/", " ", "s", "t", "o", "r", "a", "g", "e", "\n">>
        \o <<"f", "i", "n", "a", "l", " ", "t", "o", "k", "e", "n", " ", "=", " ", "'", "Y", "O", "U", "R", "_", "J", "W", "T", "'", ";", "\n">>
        \o <<"f", "i", "n", "a", "l", " ", "u", "r", "l", " ", "=", " ", "U", "r", "i", ".", "p", "a", "r", "s", "e", "(", "'">> \o url \o <<"'", ")", ";", "\n">>
        \o <<"f", "i", "n", "a", "l", " ", "r", "e", "s", "p", "o", "n", "s", "e", " ", "=", " ", "a", "w", "a", "i", "t", " ", "h", "t", "t", "p", ".", "r", "e", "q", "u", "e", "s", "t", "(", "\n">>
        \o <<" ", " ", "u", "r", "l", ",", "\n", " ", " ", "m", "e", "t", "h", "o", "d", ":", " ", "'">> \o method_upper \o <<"'", ",", "\n">>
        \o <<" ", " ", "h", "e", "a", "d", "e", "r", "s", ":", " ", "{", "\n">>
        \o <<" ", " ", " ", " ", "'", "C", "o", "n", "t", "e", "n", "t", "-", "T", "y", "p", "e", "'", ":", " ", "'", "a", "p", "p", "l", "i", "c", "a", "t", "i", "o", "n", "/", "j", "s", "o", "n", "'", ",">> \o auth_line \o <<"\n">>
        \o <<" ", " ", "}", ",">> \o body_line \o <<"\n">>
        \o <<")", ";", "\n">>
        \o <<"f", "i", "n", "a", "l", " ", "d", "a", "t", "a", " ", "=", " ", "j", "s", "o", "n", "D", "e", "c", "o", "d", "e", "(", "r", "e", "s", "p", "o", "n", "s", "e", ".", "b", "o", "d", "y", ")", ";">>

\* The branch of the stack "swift-ios".
TemplateSwiftIos(url, method_upper, needs_auth, has_body) ==
    LET body_line == IF has_body
                     THEN <<"\n", " ", " ", " ", " ", "r", "e", "q", "u", "e", "s", "t", ".", "h", "t", "t", "p", "B", "o", "d", "y", " ", "=", " ", "t", "r", "y", "?", " ", "J", "S", "O", "N", "S", "e", "r", "i", "a", "l", "i", "z", "a", "t", "i", "o", "n", ".", "d", "a", "t", "a", "(", "w", "i", "t", "h", "J", "S", "O", "N", "O", "b", "j", "e", "c", "t", ":", " ", "p", "a", "y", "l", "o", "a", "d", ")">>
                     ELSE <<>>
        auth_line == IF needs_auth
                     THEN <<"\n", " ", " ", " ", " ", "r", "e", "q", "u", "e", "s", "t", ".", "s", "e", "t", "V", "a", "l", "u", "e", "(", "\"", "B", "e", "a", "r", "e", "r", " ", "\\", "(", "t", "o", "k", "e", "n", ")", "\"", ",", " ", "f", "o", "r", "H", "T", "T", "P", "H", "e", "a", "d", "e", "r", "F", "i", "e", "l", "d", ":", " ", "\"", "A", "u", "t", "h", "o", "r", "i", "z", "a", "t", "i", "o", "n", "\"", ")">>
                     ELSE <<>>
    IN  <<"/", "/", " ", "t", "o", "k", "e", "n", " ", "f", "r", "o", "m", " ", "K", "e", "y", "c", "h", "a", "i", "n", " ", "o", "r", " ", "a", "u", "t", "h", " ", "m", "a", "n", "a", "g", "e", "r", "\n">>
        \o <<"l", "e", "t", " ", "t", "o", "k", "e", "n", " ", "=", " ", "\"", "Y", "O", "U", "R", "_", "J", "W", "T", "\"", "\n">>
        \o <<"l", "e", "t", " ", "u", "r", "l", " ", "=", " ", "U", "R", "L", "(", "s", "t", "r", "i", "n", "g", ":", " ", "\"">> \o url \o <<"\"", ")", "!", "\n">>
        \o <<"v", "a", "r", " ", "r", "e", "q", "u", "e", "s", "t", " ", "=", " ", "U", "R", "L", "R", "e", "q", "u", "e", "s", "t", "(", "u", "r", "l", ":", " ", "u", "r", "l", ")", "\n">>
        \o <<"r", "e", "q", "u", "e", "s", "t", ".", "h", "t", "t", "p", "M", "e", "t", "h", "o", "d", " ", "=", " ", "\"">> \o method_upper \o <<"\"", "\n">>
        \o <<"r", "e", "q", "u", "e", "s", "t", ".", "s", "e", "t", "V", "a", "l", "u", "e", "(", "\"", "a", "p", "p", "l", "i", "c", "a", "t", "i", "o", "n", "/", "j", "s", "o", "n", "\"", ",", " ", "f", "o", "r", "H", "T", "T", "P", "H", "e", "a", "d", "e", "r", "F", "i", "e", "l", "d", ":", " ", "\"", "C", "o", "n", "t", "e", "n", "t", "-", "T", "y", "p", "e", "\"", ")">>
        \o auth_line \o body_line \o <<"\n">>
        \o <<"l", "e", "t", " ", "(", "d", "a", "t", "a", ",", " ", "_", ")", " ", "=", " ", "t", "r", "y", " ", "a", "w", "a", "i", "t", " ", "U", "R", "L", "S", "e", "s", "s", "i", "o", "n", ".", "s", "h", "a", "r", "e", "d", ".", "d", "a", "t", "a", "(", "f", "o", "r", ":", " ", "r", "e", "q", "u", "e", "s", "t", ")", "\n">>
        \o <<"l", "e", "t", " ", "d", "e", "c", "o", "d", "e", "d", " ", "=", " ", "t", "r", "y", " ", "J", "S", "O", "N", "D", "e", "c", "o", "d", "e", "r", "(", ")", ".", "d", "e", "c", "o", "d", "e", "(", "Y", "o", "u", "r", "M", "o", "d", "e", "l", ".", "s", "e", "l", "f", ",", " ", "f", "r", "o", "m", ":", " ", "d", "a", "t", "a", ")">>

\* The branch of the stack "kotlin-android": with a body the request is
\* built by .post(...), without one by .method(method_upper, null).
TemplateKotlinAndroid(url, method_upper, needs_auth, has_body) ==
    LET body_part == IF has_body
                     THEN <<"\n", " ", " ", " ", " ", ".", "p", "o", "s", "t", "(", "p", "a", "y", "l", "o", "a", "d", ".", "t", "o", "S", "t", "r", "i", "n", "g", "(", ")", ".", "t", "o", "R", "e", "q", "u", "e", "s", "t", "B", "o", "d", "y", "(", "\"", "a", "p", "p", "l", "i", "c", "a", "t", "i", "o", "n", "/", "j", "s", "o", "n", "\"", ".", "t", "o", "M", "e", "d", "i", "a", "T", "y", "p", "e", "(", ")", ")", ")">>
                     ELSE <<"\n", " ", " ", " ", " ", ".", "m", "e", "t", "h", "o", "d", "(", "\"">> \o method_upper \o <<"\"", ",", " ", "n", "u", "l", "l", ")">>
        auth_line == IF needs_auth THEN <<"\n", " ", " ", " ", " ", ".", "a", "d", "d", "H", "e", "a", "d", "e", "r", "(", "\"", "A", "u", "t", "h", "o", "r", "i", "z", "a", "t", "i", "o", "n", "\"", ",", " ", "\"", "B", "e", "a", "r", "e", "r", " ", "$", "t", "o", "k", "e", "n", "\"", ")">> ELSE <<>>
    IN  <<"/", "/", " ", "t", "o", "k", "e", "n", " ", "f", "r", "o", "m", " ", "S", "h", "a", "r", "e", "d", "P", "r", "e", "f", "e", "r", "e", "n", "c", "e", "s", " ", "o", "r", " ", "a", "u", "t", "h", " ", "r", "e", "p", "o", "s", "i", "t", "o", "r", "y", "\n">>
        \o <<"v", "a", "l", " ", "t", "o", "k", "e", "n", " ", "=", " ", "\"", "Y", "O", "U", "R", "_", "J", "W", "T", "\"", "\n">>
        \o <<"v", "a", "l", " ", "r", "e", "q", "u", "e", "s", "t", " ", "=", " ", "R", "e", "q", "u", "e", "s", "t", ".", "B", "u", "i", "l", "d", "e", "r", "(", ")", ".", "u", "r", "l", "(", "\"">> \o url \o <<"\"", ")">> \o auth_line \o body_part \o <<"\n">>
        \o <<" ", " ", " ", " ", ".", "b", "u", "i", "l", "d", "(", ")", "\n">>
        \o <<"v", "a", "l", " ", "r", "e", "s", "p", "o", "n", "s", "e", " ", "=", " ", "c", "l", "i", "e", "n", "t", ".", "n", "e", "w", "C", "a", "l", "l", "(", "r", "e", "q", "u", "e", "s", "t", ")", ".", "e", "x", "e", "c", "u", "t", "e", "(", ")", "\n">>
        \o <<"v", "a", "l", " ", "b", "o", "d", "y", " ", "=", " ", "r", "e", "s", "p", "o", "n", "s", "e", ".", "b", "o", "d", "y", "?", ".", "s", "t", "r", "i", "n", "g", "(", ")">>

\* Mutant of TemplateFallback: the call with "react-fetch".
TemplateFallbackReactFetch(url, method_upper, needs_auth, has_body) ==
    TemplateReactFetch(url, method_upper, needs_auth, has_body)

\* The last line of _template_example: the call with "vanilla" and the same
\* other arguments, which computes the same url, method_upper and has_body.
TemplateFallback(url, method_upper, needs_auth, has_body) ==
    TemplateVanilla(url, method_upper, needs_auth, has_body)

\* Mutant of TemplateHasBody: any method with a body summary.
TemplateHasBodyAnyMethod(method, body_summary) == body_summary # <<>>

\* method_upper in ("POST", "PUT", "PATCH") and body_summary, as a truth value.
TemplateHasBody(method, body_summary) ==
    UpperText(method) \in BodyMethods /\ body_summary # <<>>

\* _template_example after url, method_upper and has_body are computed; a
\* stack that is none of the eleven takes the last line, the call with
\* "vanilla".
TemplateOf(method, path, stack, needs_auth, base_url, url, method_upper, has_body) ==
    IF stack = <<"v", "a", "n", "i", "l", "l", "a">> THEN TemplateVanilla(url, method_upper, needs_auth, has_body)
    ELSE IF stack = <<"r", "e", "a", "c", "t", "-", "f", "e", "t", "c", "h">> THEN TemplateReactFetch(url, method_upper, needs_auth, has_body)
    ELSE IF stack = <<"r", "e", "a", "c", "t", "-", "a", "x", "i", "o", "s">>
         THEN TemplateReactAxios(RStrip(base_url, "/"), LowerText(method), path, needs_auth, has_body)
    ELSE IF stack = <<"v", "u", "e", "3">> THEN TemplateVue3(url, method_upper, needs_auth, has_body)
    ELSE IF stack = <<"n", "e", "x", "t", "j", "s">> THEN TemplateNextjs(url, method_upper, needs_auth, has_body)
    ELSE IF stack = <<"a", "n", "g", "u", "l", "a", "r">> THEN TemplateAngular(url, method_upper, needs_auth, has_body)
    ELSE IF stack = <<"s", "v", "e", "l", "t", "e">> THEN TemplateSvelte(url, method_upper, needs_auth, has_body)
    ELSE IF stack = <<"r", "e", "a", "c", "t", "-", "n", "a", "t", "i", "v", "e">> THEN TemplateReactNative(url, method_upper, needs_auth, has_body)
    ELSE IF stack = <<"f", "l", "u", "t", "t", "e", "r">> THEN TemplateFlutter(url, method_upper, needs_auth, has_body)
    ELSE IF stack = <<"s", "w", "i", "f", "t", "-", "i", "o", "s">> THEN TemplateSwiftIos(url, method_upper, needs_auth, has_body)
    ELSE IF stack = <<"k", "o", "t", "l", "i", "n", "-", "a", "n", "d", "r", "o", "i", "d">> THEN TemplateKotlinAndroid(url, method_upper, needs_auth, has_body)
    ELSE TemplateFallback(url, method_upper, needs_auth, has_body)

TemplateExample(method, path, stack, needs_auth, body_summary, base_url) ==
    TemplateOf(method, path, stack, needs_auth, base_url,
               RStrip(base_url, "/") \o path, UpperText(method),
               TemplateHasBody(method, body_summary))

(***************************************************************************)
(* The template specification: the arguments of one call of                *)
(* _template_example, held in doc, and the call.                           *)
(***************************************************************************)
StackIds == {STACKS[i].value : i \in 1..Len(STACKS)}

\* Stack strings that are none of the eleven ids.
UnknownStacks == {<<>>, <<"V", "a", "n", "i", "l", "l", "a">>, <<"r", "e", "a", "c", "t">>}

TemplateMethods == {<<"G", "E", "T">>, <<"P", "O", "S", "T">>, <<"p", "u", "t">>, <<"P", "A", "T", "C", "H">>, <<"d", "e", "l", "e", "t", "e">>}

TemplatePaths == {<<"/", "i", "t", "e", "m", "s", "/", "{", "i", "d", "}">>, <<"/", "a">>}

BodySummaries == {<<>>, <<"b", "o", "d", "y">>, <<"I", "t", "e", "m">>}

TemplateBaseUrls == {<<>>, <<"h", "t", "t", "p", "s", ":", "/", "/", "a", "p", "i", ".", "x", ".", "c", "o", "m">>, <<"h", "t", "t", "p", "s", ":", "/", "/", "a", "p", "i", ".", "x", ".", "c", "o", "m", "/">>}

TemplateArgs ==
    [method : TemplateMethods, path : TemplatePaths, stack : StackIds \cup UnknownStacks,
     needs_auth : BOOLEAN, body_summary : BodySummaries, base_url : TemplateBaseUrls]

InitTemplate ==
    /\ doc \in TemplateArgs
    /\ call = [op |-> "none"]
    /\ out = Null

TemplateExampleCall ==
    /\ call.op = "none"
    /\ call' = [op |-> "_template_example"]
    /\ out' = TemplateExample(doc.method, doc.path, doc.stack, doc.needs_auth,
                              doc.body_summary, doc.base_url)
    /\ UNCHANGED doc

NextTemplate ==
    \/ TemplateExampleCall
    \/ Return

SpecTemplate == InitTemplate /\ [][NextTemplate]_vars

(***************************************************************************)
(* Claims about the template examples.                                     *)
(***************************************************************************)
TemplateReturned == call.op = "_template_example"

\* The example has a header with Authorization and Bearer in it.
HasAuthMarker(s) == Contains(s, <<"A", "u", "t", "h", "o", "r", "i", "z", "a", "t", "i", "o", "n">>) /\ Contains(s, <<"B", "e", "a", "r", "e", "r">>)

\* The ways the eleven templates serialize a payload into the request.
BodyMarkers ==
    {<<"J", "S", "O", "N", ".", "s", "t", "r", "i", "n", "g", "i", "f", "y", "(">>, <<"d", "a", "t", "a", ":", " ", "p", "a", "y", "l", "o", "a", "d">>, <<"b", "o", "d", "y", ":", " ", "p", "a", "y", "l", "o", "a", "d">>, <<"j", "s", "o", "n", "E", "n", "c", "o", "d", "e", "(">>,
     <<"h", "t", "t", "p", "B", "o", "d", "y">>, <<"t", "o", "R", "e", "q", "u", "e", "s", "t", "B", "o", "d", "y", "(">>}

HasBodyMarker(s) == \E mk \in BodyMarkers : Contains(s, mk)

\* The request has a body: the method is POST, PUT or PATCH and there is a
\* body summary.
RequestHasBody ==
    /\ UpperText(doc.method) \in {<<"P", "O", "S", "T">>, <<"P", "U", "T">>, <<"P", "A", "T", "C", "H">>}
    /\ doc.body_summary # <<>>

\* C15: for each of the eleven stack ids the example has an
\* Authorization/Bearer header if and only if needs_auth, and a payload
\* serialization if and only if the request has a body.
C15_AuthAndBodyGated ==
    TemplateReturned /\ doc.stack \in StackIds =>
        /\ HasAuthMarker(out) <=> doc.needs_auth
        /\ HasBodyMarker(out) <=> RequestHasBody

\* An example of the stack swift-ios, with auth and a body.
C15_Witness ==
    /\ TemplateReturned
    /\ doc.stack = <<"s", "w", "i", "f", "t", "-", "i", "o", "s">>
    /\ doc.needs_auth
    /\ RequestHasBody
    /\ HasAuthMarker(out)
    /\ HasBodyMarker(out)

\* The ways the eleven templates name the method m of the request.
MethodMarkers(m) ==
    { <<"m", "e", "t", "h", "o", "d", ":", " ", "\"">> \o UpperText(m) \o <<"\"">>,
      <<"m", "e", "t", "h", "o", "d", ":", " ", "'">> \o UpperText(m) \o <<"'">>,
      <<"h", "t", "t", "p", "M", "e", "t", "h", "o", "d", " ", "=", " ", "\"">> \o UpperText(m) \o <<"\"">>,
      <<".", "m", "e", "t", "h", "o", "d", "(", "\"">> \o UpperText(m) \o <<"\"">>,
      <<"a", "p", "i", ".">> \o LowerText(m) \o <<"(">>,
      <<" ", " ", " ", " ", ".">> \o LowerText(m) \o <<"(", "p", "a", "y", "l", "o", "a", "d">> }

\* C16: for each of the eleven stack ids, every method and with or without a
\* body, the example issues the request with the requested method.
C16_MethodIsRequested ==
    TemplateReturned /\ doc.stack \in StackIds =>
        \E mk \in MethodMarkers(doc.method) : Contains(out, mk)

\* base_url without its trailing slash.
WithoutTrailingSlash(s) ==
    IF s # <<>> /\ s[Len(s)] = "/" THEN SubSeq(s, 1, Len(s) - 1) ELSE s

\* C17: for each of the eleven stack ids the example contains the full URL,
\* base_url without its trailing slash followed by path.
C17_FullUrlLiteral ==
    TemplateReturned /\ doc.stack \in StackIds =>
        Contains(out, WithoutTrailingSlash(doc.base_url) \o doc.path)

\* out is a str.
IsText(v) == DOMAIN v = 1..Len(v) /\ \A i \in 1..Len(v) : v[i] \in STRING

\* C18: _template_example returns a str for every stack string, and for a
\* stack string that is none of the eleven ids it returns what it returns
\* for "vanilla" with the same other arguments.
C18_UnknownStackIsVanilla ==
    TemplateReturned =>
        /\ IsText(out)
        /\ doc.stack \notin StackIds =>
              out = TemplateExample(doc.method, doc.path, <<"v", "a", "n", "i", "l", "l", "a">>, doc.needs_auth,
                                    doc.body_summary, doc.base_url)

\* An example returned for the stack string "react", with a body and auth.
C18_Witness ==
    /\ TemplateReturned
    /\ doc.stack = <<"r", "e", "a", "c", "t">>
    /\ doc.needs_auth
    /\ RequestHasBody
    /\ Contains(out, <<"f", "e", "t", "c", "h", "(", "u", "r", "l", ",", " ", "{">>)

(***************************************************************************)
(* Unresolvable references and array items.                                *)
(***************************************************************************)
\* The call is on a reference into components.schemas whose name is in
\* neither table of the document.
MissingRef ==
    /\ call.op \in {"resolve_schema", "schema_to_data", "schema_to_html"}
    /\ GetText(call.arg, "ref") # <<>>
    /\ StartsWith(call.arg.ref, PrefixComponents)
    /\ LastSegment(call.arg.ref) \notin DOMAIN doc.schemas
    /\ LastSegment(call.arg.ref) \notin DOMAIN doc.definitions

\* C19: a reference to a schema name that is absent from the document
\* resolves to null, the projector returns a null or empty result for it, and
\* the renderer returns the "Schema: <name>" placeholder without raising.
C19_MissingRefFallsBack ==
    MissingRef =>
        /\ call.op = "resolve_schema" => IsNull(out)
        /\ call.op = "schema_to_data" => (IsNull(out) \/ DOMAIN out = {})
        /\ call.op = "schema_to_html" =>
              out = [html |-> << Lit("<p class=\"schema-ref\">Schema: <code>"),
                                 Txt("schema_name", Escape(LastSegment(call.arg.ref))),
                                 Lit("</code></p>") >>]

\* The properties of the object schema the rendered node stands for.
RenderedProperties == GetList(ResolveSchema(call.arg, doc, 0), "properties")

\* The renderer returned the table of an object schema.
TableRendered ==
    /\ call.op = "schema_to_html"
    /\ ~IsError(out)
    /\ Len(out.html) = 3
    /\ DOMAIN out.html[2] = {"site", "html"}
    /\ out.html[2].site = "rows"
    /\ Len(RenderedProperties) > 0

\* The places of the table body where the row of a property starts, and the
\* part of the body that belongs to the k-th property.
RowStarts(rows) == {i \in 1..Len(rows) : rows[i] = Lit("<tr><td><code>")}
RowStart(rows, k) ==
    CHOOSE i \in RowStarts(rows) : Cardinality({j \in RowStarts(rows) : j <= i}) = k
RowEnd(rows, k) ==
    IF k = Cardinality(RowStarts(rows)) THEN Len(rows) ELSE RowStart(rows, k + 1) - 1
RowsOfProperty(rows, k) == SubSeq(rows, RowStart(rows, k), RowEnd(rows, k))

\* The markup interpolated as a nested table in the rows of one property.
NestedTables(prows) ==
    {i \in 1..Len(prows) : DOMAIN prows[i] = {"site", "html"}}

IsArrayOfRef(prop_schema) ==
    /\ GetText(prop_schema, "type") = T_array
    /\ HasKey(prop_schema, "items")
    /\ GetText(prop_schema.items, "ref") # <<>>

IsArrayOfInlineObject(prop_schema) ==
    /\ GetText(prop_schema, "type") = T_array
    /\ HasKey(prop_schema, "items")
    /\ GetText(prop_schema.items, "ref") = <<>>
    /\ GetText(prop_schema.items, "type") = T_object
    /\ GetList(prop_schema.items, "properties") # <<>>

\* The rows of an array of inline objects end with the "Items:" row, whose
\* table has one row for each property of the items.
ItemsExpanded(prows, items) ==
    /\ Len(prows) >= 3
    /\ prows[Len(prows) - 2] = Lit("<tr><td colspan=\"4\" class=\"nested-schema\">Items: ")
    /\ LET sub == prows[Len(prows) - 1]
       IN  /\ DOMAIN sub = {"site", "html"}
           /\ Len(sub.html) = 3
           /\ DOMAIN sub.html[2] = {"site", "html"}
           /\ Cardinality(RowStarts(sub.html[2].html)) = Len(items.properties)
           /\ \A j \in 1..Len(items.properties) :
                 RowsOfProperty(sub.html[2].html, j)[2]
                    = Txt("prop_name", Escape(items.properties[j].name))

C20_ArrayItemsOf(props, rows) ==
    /\ Cardinality(RowStarts(rows)) = Len(props)
    /\ \A k \in 1..Len(props) :
          /\ IsArrayOfRef(props[k].schema) => NestedTables(RowsOfProperty(rows, k)) = {}
          /\ IsArrayOfInlineObject(props[k].schema)
                => ItemsExpanded(RowsOfProperty(rows, k), props[k].schema.items)

\* C20: in a rendered schema table an array property whose items are a $ref
\* has no nested table, and an array property whose items are an inline object
\* with properties is followed by the "Items:" row holding the items' table.
C20_ArrayItems ==
    TableRendered => C20_ArrayItemsOf(RenderedProperties, out.html[2].html)

\* A rendered table with an array of $ref items whose target has properties
\* and an array of inline objects.
C20_Witness ==
    /\ TableRendered
    /\ \E k \in 1..Len(RenderedProperties) :
          /\ IsArrayOfRef(RenderedProperties[k].schema)
          /\ GetList(ResolveSchema(RenderedProperties[k].schema.items, doc, 0),
                     "properties") # <<>>
    /\ \E k \in 1..Len(RenderedProperties) :
          IsArrayOfInlineObject(RenderedProperties[k].schema)

(***************************************************************************)
(* Claims about the count of each operation in the normalized output.      *)
(***************************************************************************)
\* The operations of the document under the fixed methods whose value is a
\* dict, as <<method, path, first tag or Other>> triples.
TaggedOperations ==
    UNION {IF IsMapping(PathEntries[i].value)
           THEN {<<UpperText(ko[1]), PathEntries[i].name, OpTag(ko[2])>> :
                   ko \in {ko \in StandardOps(PathEntries[i].value) : IsDict(ko[2])}}
           ELSE {} : i \in 1..Len(PathEntries)}

\* The places of a list of endpoints that hold the pair (method, path).
PlacesOf(endpoints, method, path) ==
    {n \in 1..Len(endpoints) :
       endpoints[n].method = method /\ endpoints[n].path = Escape(path)}

C25_OnceIn(endpoints) ==
    \A op \in TaggedOperations :
       /\ Cardinality(PlacesOf(endpoints, op[1], op[2])) = 1
       /\ \A n \in PlacesOf(endpoints, op[1], op[2]) : endpoints[n].tag = Escape(op[3])

\* C25: every operation of the document is listed exactly once by
\* build_api_reference_data and by build_api_reference_html, in the group of
\* its first tag or of Other: no (method, path) pair is listed twice.
C25_EachOperationOnce ==
    (DataCalled \/ HtmlCalled) /\ ~IsError(out) => C25_OnceIn(OutEndpoints)

(***************************************************************************)
(* Claims about self-referential schemas.                                  *)
(***************************************************************************)
\* A schema of components.schemas has a property that is a $ref to the schema
\* itself.
SelfReferential ==
    \E name \in DOMAIN doc.schemas :
       \E i \in 1..Len(GetList(doc.schemas[name], "properties")) :
          GetText(doc.schemas[name].properties[i].schema, "ref") = RefC(name)

\* C27: build_api_reference_html returns a page for a document whose object
\* schemas refer to themselves through their properties; the rendering of the
\* schema does not recurse until the interpreter's limit.
C27_SelfReferenceTerminates ==
    HtmlCalled /\ SelfReferential => ~IsError(out)

(***************************************************************************)
(* The body summary of an operation (src/app/docs_agent.py) and the three  *)
(* derivations of has_body.                                                *)
(***************************************************************************)
\* content.get(media_type, {}).get("schema")
JsonSchemaOf(content, media_type) ==
    LET media_spec == IF MappingHas(content, media_type)
                      THEN MappingGet(content, media_type) ELSE EmptyDict
    IN  IF HasKey(media_spec, "schema") THEN media_spec.schema ELSE Null

\* ", ".join(props.keys()) from the i-th property on.
RECURSIVE JoinNames(_, _)
JoinNames(props, i) ==
    IF i > Len(props) THEN <<>>
    ELSE (IF i > 1 THEN <<",", " ">> ELSE <<>>) \o props[i].name \o JoinNames(props, i + 1)

\* _get_body_summary after body is read: [val |-> the summary], or the
\* AttributeError of body.get when the request body is a str.
BodySummaryOf(body) ==
    IF ~IsDict(body) THEN AttributeError
    ELSE LET content == IF HasKey(body, "content") /\ PyTruthy(body.content)
                        THEN body.content ELSE Mapping(<<>>)
             first == JsonSchemaOf(content, JsonMediaTypes[1])
             schema == IF Truthy(first) THEN first
                       ELSE JsonSchemaOf(content, JsonMediaTypes[2])
         IN  IF ~Truthy(schema) THEN [val |-> <<>>]
             ELSE IF GetText(schema, "ref") # <<>> THEN [val |-> LastSegment(schema.ref)]
             ELSE IF GetList(schema, "properties") # <<>>
                  THEN [val |-> JoinNames(schema.properties, 1)]
                  ELSE [val |-> <<"b", "o", "d", "y">>]

GetBodySummary(op) ==
    BodySummaryOf(IF HasKey(op, "requestBody") /\ PyTruthy(op.requestBody)
                  THEN op.requestBody ELSE EmptyDict)

\* The number of times the markup holds the literal s, at every depth, in
\* the places lo..hi of items.
RECURSIVE LitCount(_, _, _, _)
LitCount(items, s, lo, hi) ==
    IF lo > hi THEN 0
    ELSE IF lo = hi
    THEN (IF HasKey(items[lo], "lit") THEN (IF items[lo].lit = s THEN 1 ELSE 0)
          ELSE IF HasKey(items[lo], "html")
               THEN LitCount(items[lo].html, s, 1, Len(items[lo].html))
               ELSE 0)
    ELSE LitCount(items, s, lo, (lo + hi) \div 2)
         + LitCount(items, s, (lo + hi) \div 2 + 1, hi)

\* The synthesized example of the operation carries a body.
ExampleHasBody(method, summary) ==
    ~IsError(summary) /\ TemplateHasBody(method, summary.val)

\* The endpoints of a payload whose synthesized example carries a body.
EndpointsWithExampleBody(payload) ==
    {i \in 1..Len(AllEndpoints(payload)) :
       \E op \in OpsOf(AllEndpoints(payload)[i]) :
          ExampleHasBody(AllEndpoints(payload)[i].method, GetBodySummary(op))}

\* C26: for every operation the three derivations of has_body agree: the
\* has_body of the payload's how_to_call, the has_body that writes the body
\* note of the page's "how to call" block, and the has_body of
\* _template_example on the operation's body summary.
C26_HasBodyAgrees ==
    /\ DataReturned =>
          \A i \in 1..Len(AllEndpoints(out)) :
             \A op \in OpsOf(AllEndpoints(out)[i]) :
                /\ ~IsError(GetBodySummary(op))
                /\ AllEndpoints(out)[i].how_to_call.has_body
                      <=> ExampleHasBody(AllEndpoints(out)[i].method, GetBodySummary(op))
                /\ AllEndpoints(out)[i].how_to_call.has_body
                      <=> HowToCallHasBody(AllEndpoints(out)[i].method, op)
    /\ HtmlReturned =>
          LitCount(out.html, "<p class=\"call-body\">Send a JSON body; see <strong>Request body</strong> schema below.</p>", 1, Len(out.html))
             = Cardinality(EndpointsWithExampleBody(BuildApiReferenceData(doc, call.arg)))

(***************************************************************************)
(* The API overview text (_api_summary_text of src/app/docs_agent.py).     *)
(* context_tag_names is Null or [set |-> a set of tag names].  The text is *)
(* the items of its lines, joined by newlines.                             *)
(***************************************************************************)
\* s.strip()
StripWs(s) ==
    LET keep == {i \in 1..Len(s) : s[i] \notin {" ", "\n", "\t", "\r"}}
    IN  IF keep = {} THEN <<>>
        ELSE SubSeq(s, CHOOSE i \in keep : \A j \in keep : i <= j, SetMax(keep))

\* s[:n]
Take(s, n) == IF Len(s) > n THEN SubSeq(s, 1, n) ELSE s

\* (op.get("summary") or op.get("description") or "").strip()[:120]
OpSummary(op) ==
    Take(StripWs(IF GetText(op, "summary") # <<>> THEN op.summary
                 ELSE GetText(op, "description")), 120)

\* set(op.get("tags") or ["Other"])
TagSet(op) ==
    IF GetList(op, "tags") # <<>> THEN {op.tags[i] : i \in 1..Len(op.tags)} ELSE {T_Other}

\* The operation passes the filter of the selected tags.
InContext(op, context_tag_names) ==
    IsNull(context_tag_names) \/ TagSet(op) \cap context_tag_names.set # {}

\* What the method loop appends to by_tag for one path, from the i-th method on.
RECURSIVE SummaryEntries(_, _, _, _)
SummaryEntries(path, path_item, context_tag_names, i) ==
    IF i > Len(StandardMethods) THEN <<>>
    ELSE LET method == StandardMethods[i]
             op == MappingGet(path_item, method)
         IN  (IF IsDict(op) /\ InContext(op, context_tag_names)
              THEN <<[tag |-> OpTag(op), method |-> UpperText(method), path |-> path,
                      summary |-> OpSummary(op)]>>
              ELSE <<>>)
             \o SummaryEntries(path, path_item, context_tag_names, i + 1)

\* The path loop from the i-th sorted path on; a path item that is not a dict
\* is skipped.
RECURSIVE SummaryByTag(_, _, _)
SummaryByTag(sorted_paths, context_tag_names, i) ==
    IF i > Len(sorted_paths) THEN <<>>
    ELSE (IF IsMapping(sorted_paths[i].value)
          THEN SummaryEntries(sorted_paths[i].name, sorted_paths[i].value,
                              context_tag_names, 1)
          ELSE <<>>)
         \o SummaryByTag(sorted_paths, context_tag_names, i + 1)

\* by_tag[tag][:20]
TagSlice(mine) == Take(mine, 20)

EndpointLine(e) ==
    << Lit("    "), Txt("method", e.method), Lit(" "), Txt("path", e.path) >>
    \o (IF e.summary # <<>> THEN <<Lit(" [U+2014] "), Txt("summary", e.summary)>> ELSE <<>>)

\* The lines of one tag: its heading and its endpoints.
TagLines(tag, mine) ==
    << <<Lit("  ["), Txt("tag", tag), Lit("]")>> >>
    \o [j \in 1..Len(TagSlice(mine)) |-> EndpointLine(TagSlice(mine)[j])]

\* sorted(by_tag.keys()), or sorted(set(by_tag.keys()) & context_tag_names)
TagOrder(by_tag, context_tag_names) ==
    SortedTexts({t \in {by_tag[i].tag : i \in 1..Len(by_tag)} :
                   IsNull(context_tag_names) \/ t \in context_tag_names.set})

\* The lines of the text, given by_tag and tag_order.
SummaryLines(info, by_tag, tag_order, context_tag_names) ==
    << <<Lit("Title: "),
         Txt("title", IF HasKey(info, "title") THEN info.title ELSE <<"A", "P", "I">>)>>,
       <<Lit("Version: "), Txt("version", GetText(info, "version"))>> >>
    \o (IF StripWs(GetText(info, "description")) # <<>>
        THEN << <<Lit("Description: "),
                  Txt("description", Take(StripWs(info.description), 800))>> >>
        ELSE <<>>)
    \o << <<Lit("Endpoints:")>> >>
    \o Flatten([k \in 1..Len(tag_order) |->
                  TagLines(tag_order[k], TagEntries(by_tag, tag_order[k]))])
    \o (IF ~IsNull(context_tag_names) /\ context_tag_names.set # {} /\ by_tag = <<>>
        THEN << <<Lit("  (No endpoints in selected modules.)")>> >>
        ELSE <<>>)

SummaryOfByTag(openapi_schema, context_tag_names, by_tag) ==
    [text |-> JoinNl(SummaryLines(Info(openapi_schema), by_tag,
                                  TagOrder(by_tag, context_tag_names),
                                  context_tag_names))]

ApiSummaryText(openapi_schema, context_tag_names) ==
    SummaryOfByTag(openapi_schema, context_tag_names,
                   SummaryByTag(SortedEntries(IF HasKey(openapi_schema, "paths")
                                              THEN openapi_schema.paths.entries
                                              ELSE <<>>),
                                context_tag_names, 1))

\* _run_tool for the tool get_api_overview: the text of the whole document.
RunGetApiOverview(openapi_schema) == ApiSummaryText(openapi_schema, Null)

(***************************************************************************)
(* The overview specification: a document and a selection of tags, held in *)
(* doc, and the calls that write the overview text.                        *)
(***************************************************************************)
\* A path item with an operation under each of the seven methods.
FullItem(op) == Mapping([i \in 1..Len(StandardMethods) |-> Entry(StandardMethods[i], op)])

OverviewItems ==
    { Mapping(<<Entry(K_get, OpPlain)>>),
      Mapping(<<Entry(K_post, OpTagged), Entry(K_get, OpPlain)>>),
      Mapping(<<Entry(K_get, Str(Benign)), Entry(K_post, [description |-> <<" ", "t", "w", "o", "\n", "l", "i", "n", "e", "s", " ">>])>>),
      FullItem(OpPlain),
      FullItem(OpTagged),
      Str(Benign) }

OverviewDocs ==
    {RefDoc(SchemasPlain, InfoPlain, <<Entry(<<"/", "a">>, i)>>) : i \in OverviewItems}
    \cup {RefDoc(SchemasPlain, Merge(InfoPlain, [description |-> <<" ", "P", "e", "t", " ", "s", "t", "o", "r", "e", ".", " ">>]),
                 <<Entry(<<"/", "c">>, i), Entry(<<"/", "a">>, j), Entry(<<"/", "b">>, k)>>) :
            i \in OverviewItems, j \in OverviewItems, k \in OverviewItems}

\* The selections of tags: none, and sets of names.
TagSelections ==
    {Null} \cup {[set |-> S] : S \in {{}, {<<"A", "u", "t", "h">>}, {<<"M", "i", "s", "c">>}, {T_Other},
                                      {<<"A", "u", "t", "h">>, T_Other}}}

InitOverview ==
    /\ doc \in {[openapi_schema |-> s, context_tag_names |-> c] :
                  s \in OverviewDocs, c \in TagSelections}
    /\ call = [op |-> "none"]
    /\ out = Null

ApiSummaryTextCall ==
    /\ call.op = "none"
    /\ call' = [op |-> "_api_summary_text"]
    /\ out' = ApiSummaryText(doc.openapi_schema, doc.context_tag_names)
    /\ UNCHANGED doc

\* The tool get_api_overview, which takes no selection.
GetApiOverviewCall ==
    /\ call.op = "none"
    /\ call' = [op |-> "get_api_overview"]
    /\ out' = RunGetApiOverview(doc.openapi_schema)
    /\ UNCHANGED doc

NextOverview ==
    \/ ApiSummaryTextCall
    \/ GetApiOverviewCall
    \/ Return

SpecOverview == InitOverview /\ [][NextOverview]_vars

(***************************************************************************)
(* Claims about the overview text.                                         *)
(***************************************************************************)
\* The selection the text in out was written for.
OverviewSelection ==
    IF call.op = "get_api_overview" THEN Null ELSE doc.context_tag_names

\* The strings the text interpolates under "Endpoints:", in order.
ListingTxt(text) ==
    SelectSeq(text, LAMBDA it : HasKey(it, "txt") /\ it.site \in {"tag", "method", "path"})

\* The endpoints the text lists, each with the heading it is under, as
\* <<tag, method, path>> triples, in order.
ListedEndpoints(sel) ==
    LET at == SelectSeq([k \in 1..Len(sel) |-> k], LAMBDA k : sel[k].site = "method")
    IN  [n \in 1..Len(at) |->
           << sel[SetMax({j \in 1..at[n] : sel[j].site = "tag"})].txt,
              sel[at[n]].txt, sel[at[n] + 1].txt >>]

\* The operations of the document under the fixed methods whose first tag
\* (or Other) is selected, as <<tag, method, path>> triples.
SelectedOperations(openapi_schema, selection) ==
    LET paths == openapi_schema.paths.entries
    IN  UNION {IF IsMapping(paths[i].value)
               THEN {<<OpTag(ko[2]), UpperText(ko[1]), paths[i].name>> :
                       ko \in {ko \in StandardOps(paths[i].value) :
                                 /\ IsDict(ko[2])
                                 /\ IsNull(selection) \/ OpTag(ko[2]) \in selection.set}}
               ELSE {} : i \in 1..Len(paths)}

C22_ListingIs(listed, expected) ==
    /\ {listed[n] : n \in 1..Len(listed)} = expected
    /\ Len(listed) = Cardinality(expected)

\* C22: the overview text lists every operation of the document under the
\* fixed methods, under its first tag (or Other), once; written for a
\* selection of tag names it lists exactly the operations whose first tag is
\* selected; no operation is left out, however many its tag has.
C22_OverviewListsEveryEndpoint ==
    call.op \in {"_api_summary_text", "get_api_overview"} =>
        C22_ListingIs(ListedEndpoints(ListingTxt(out.text)),
                      SelectedOperations(doc.openapi_schema, OverviewSelection))

(***************************************************************************)
(* The HTTP boundary (src/app/main.py): URLs, the origin allowlist and the *)
(* fetch of an external specification.  A URL is a Text of printable ASCII *)
(* characters without ";".  An HTTPException is the record                 *)
(* [status, detail]; a detail or an error message is the items of the      *)
(* f-string that writes it.                                                *)
(***************************************************************************)
HttpError(status, detail) == [status |-> status, detail |-> detail]

IsHttpError(v) == DOMAIN v = {"status", "detail"}

\* s.endswith(suffix)
EndsWith(s, suffix) ==
    Len(s) >= Len(suffix) /\ SubSeq(s, Len(s) - Len(suffix) + 1, Len(s)) = suffix

\* s.lstrip() of the space and control characters urlsplit drops.
LStripWs(s) ==
    LET keep == {i \in 1..Len(s) : s[i] \notin {" ", "\n", "\t", "\r"}}
    IN  IF keep = {} THEN <<>>
        ELSE SubSeq(s, CHOOSE i \in keep : \A j \in keep : i <= j, Len(s))

\* The first place of s, from place lo on, that holds a character of cs;
\* Len(s) + 1 when there is none.
FindFrom(s, cs, lo) ==
    LET at == {i \in lo..Len(s) : s[i] \in cs}
    IN  IF at = {} THEN Len(s) + 1 ELSE CHOOSE i \in at : \A j \in at : i <= j

\* The text before the first ":" is a scheme: it starts with a letter and
\* holds letters, digits, "+", "-" and "." only.
HasScheme(url) ==
    LET colon == FindFrom(url, {":"}, 1)
    IN  /\ 1 < colon /\ colon <= Len(url)
        /\ IsAlnum(url[1]) /\ ~IsAsciiDigit(url[1])
        /\ \A i \in 1..(colon - 1) : IsAlnum(url[i]) \/ url[i] \in {"+", "-", "."}

\* urlparse(url) after the scheme is split off: netloc, when rest starts with
\* "//", runs to the first of "/", "?" and "#"; path runs to the first of
\* "?" and "#".
UrlParseRest(scheme, rest) ==
    LET has_netloc == Len(rest) >= 2 /\ SubSeq(rest, 1, 2) = <<"/", "/">>
        netloc_end == IF has_netloc THEN FindFrom(rest, {"/", "?", "#"}, 3) ELSE 1
        path_end == FindFrom(rest, {"?", "#"}, netloc_end)
    IN  [scheme |-> scheme,
         netloc |-> IF has_netloc THEN SubSeq(rest, 3, netloc_end - 1) ELSE <<>>,
         path |-> SubSeq(rest, netloc_end, path_end - 1)]

\* urlparse(url): scheme, netloc and path.
UrlParse(url) ==
    LET u == LStripWs(url)
    IN  IF HasScheme(u)
        THEN UrlParseRest(LowerText(SubSeq(u, 1, FindFrom(u, {":"}, 1) - 1)),
                          SubSeq(u, FindFrom(u, {":"}, 1) + 1, Len(u)))
        ELSE UrlParseRest(<<>>, u)

\* The origin of a parsed URL, or "" when it has no scheme or no netloc.
OriginOfParsed(parsed) ==
    IF parsed.scheme # <<>> /\ parsed.netloc # <<>>
    THEN parsed.scheme \o <<":", "/", "/">> \o parsed.netloc
    ELSE <<>>

OriginFromUrl(url) == OriginOfParsed(UrlParse(RStrip(StripWs(url), "/")))

\* A mutant of OriginAllowed: some allowed origin starts the URL's origin.
OriginAllowedByPrefix(origin, allowed) ==
    \E i \in 1..Len(allowed) : StartsWith(origin, RStrip(allowed[i], "/"))

\* origin_normalized in allowed
OriginAllowed(origin, allowed) ==
    \E i \in 1..Len(allowed) : RStrip(origin, "/") = RStrip(allowed[i], "/")

\* _check_allowed_origin: Null when it returns, the HTTPException it raises
\* otherwise.
CheckAllowedOrigin(openapi_url, allowed_openapi_origins) ==
    IF allowed_openapi_origins = <<>> THEN Null
    ELSE IF OriginFromUrl(openapi_url) = <<>>
    THEN HttpError(400, <<Lit("openapi_url must be a valid http or https URL")>>)
    ELSE IF ~OriginAllowed(OriginFromUrl(openapi_url), allowed_openapi_origins)
    THEN HttpError(403, <<Lit("This API docs instance is restricted to specific APIs. The given URL is not allowed.")>>)
    ELSE Null

SPEC_URL_SUFFIXES ==
    << <<"/", "o", "p", "e", "n", "a", "p", "i", ".", "j", "s", "o", "n">>, <<"/", "s", "w", "a", "g", "g", "e", "r", ".", "j", "s", "o", "n">>, <<"/", "a", "p", "i", "-", "d", "o", "c", "s">>, <<"/", "d", "o", "c", "s">>, <<"/", "d", "o", "c", "s", "/">>,
       <<"/", "o", "p", "e", "n", "a", "p", "i", ".", "y", "a", "m", "l">>, <<"/", "o", "p", "e", "n", "a", "p", "i", ".", "y", "m", "l">>, <<"/", "s", "w", "a", "g", "g", "e", "r", ".", "y", "a", "m", "l">>, <<"/", "s", "w", "a", "g", "g", "e", "r", ".", "y", "m", "l">>,
       <<"/", "v", "3", "/", "a", "p", "i", "-", "d", "o", "c", "s">>, <<"/", "v", "1", "/", "o", "p", "e", "n", "a", "p", "i", ".", "j", "s", "o", "n">>, <<"/", "a", "p", "i", "-", "d", "o", "c", "s", ".", "j", "s", "o", "n">>,
       <<"/", ".", "w", "e", "l", "l", "-", "k", "n", "o", "w", "n", "/", "o", "p", "e", "n", "a", "p", "i", ".", "j", "s", "o", "n">> >>

\* The URL is a YAML file by its ending.
EndsWithYaml(url) ==
    EndsWith(LowerText(url), <<".", "y", "a", "m", "l">>) \/ EndsWith(LowerText(url), <<".", "y", "m", "l">>)

\* The candidates of _fetch_external_openapi for the stripped URL.
CandidatesOf(url, path_lower) ==
    IF \/ EndsWith(LowerText(url), <<".", "j", "s", "o", "n">>)
       \/ EndsWithYaml(url)
       \/ EndsWith(path_lower, <<"/", "d", "o", "c", "s">>)
       \/ EndsWith(path_lower, <<"/", "o", "p", "e", "n", "a", "p", "i">>)
       \/ EndsWith(path_lower, <<"/", "a", "p", "i", "-", "d", "o", "c", "s">>)
    THEN <<url>>
    ELSE [i \in 1..Len(SPEC_URL_SUFFIXES) |-> url \o SPEC_URL_SUFFIXES[i]]

Candidates(openapi_url) ==
    CandidatesOf(RStrip(StripWs(openapi_url), "/"),
                 LowerText(RStrip(UrlParse(RStrip(StripWs(openapi_url), "/")).path, "/")))

\* What _fetch_external_openapi raises before its loop, or Null.
FetchPrecheck(openapi_url, allowed_openapi_origins) ==
    IF ~IsNull(CheckAllowedOrigin(openapi_url, allowed_openapi_origins))
    THEN CheckAllowedOrigin(openapi_url, allowed_openapi_origins)
    ELSE IF UrlParse(openapi_url).scheme \notin {<<"h", "t", "t", "p">>, <<"h", "t", "t", "p", "s">>}
    THEN HttpError(400, <<Lit("openapi_url must be http or https")>>)
    ELSE Null

\* str(n) of a natural number.
RECURSIVE DecimalText(_)
DecimalText(n) ==
    IF n < 10 THEN <<<<"0", "1", "2", "3", "4", "5", "6", "7", "8", "9">>[n + 1]>>
    ELSE DecimalText(n \div 10)
         \o <<<<"0", "1", "2", "3", "4", "5", "6", "7", "8", "9">>[(n % 10) + 1]>>

\* (r.headers.get("content-type") or "").split(";")[0].strip().lower()
ContentType(header) ==
    LowerText(StripWs(SubSeq(header, 1, FindFrom(header, {";"}, 1) - 1)))

\* The parse of a response body: r.json() and yaml.safe_load(r.text) each
\* give [value |-> v] or [raises |-> message].  data is the one lines 131-145
\* pick by the content type and the URL.
ParsedData(r, spec_url) ==
    LET content_type == ContentType(r.content_type)
    IN  IF Contains(content_type, <<"j", "s", "o", "n">>) \/ content_type \in {<<"*", "/", "*">>, <<>>}
        THEN IF HasKey(r.json, "value") THEN r.json ELSE r.yaml
        ELSE IF Contains(content_type, <<"y", "a", "m", "l">>) \/ EndsWithYaml(spec_url)
        THEN r.yaml
        ELSE IF HasKey(r.json, "value") THEN r.json ELSE r.yaml

\* One round of the loop after data is parsed: the round returns data,
\* raises, or goes on to the next candidate with last_error.
RoundOfData(spec_url, data) ==
    IF ~IsDict(data)
    THEN [continue |-> <<Lit("Response from "), Txt("spec_url", spec_url),
                         Lit(" is not a valid object")>>]
    ELSE IF ~HasKey(data, "paths")
    THEN [raise |-> HttpError(502, <<Lit("Fetched URL but it is not a valid OpenAPI/Swagger document (missing 'paths').")>>)]
    ELSE IF ~HasKey(data, "openapi") /\ ~HasKey(data, "swagger")
    THEN [raise |-> HttpError(502, <<Lit("Fetched URL but it is not a valid OpenAPI/Swagger document (missing 'openapi' or 'swagger' field).")>>)]
    ELSE [return |-> data]

\* One round of the loop for the answer r of the server at spec_url.
FetchRound(spec_url, r) ==
    IF r.kind = "request_error"
    THEN [continue |-> <<Lit("Could not fetch spec (check URL and network): "),
                         Txt("error", r.message)>>]
    ELSE IF r.status >= 400
    THEN [continue |-> <<Lit("Could not fetch spec: "),
                         Txt("status_code", DecimalText(r.status)),
                         Lit(" from "), Txt("spec_url", spec_url)>>]
    ELSE IF HasKey(ParsedData(r, spec_url), "raises")
    THEN [continue |-> <<Lit("Invalid response from "), Txt("spec_url", spec_url),
                         Lit(": "), Txt("error", ParsedData(r, spec_url).raises)>>]
    ELSE RoundOfData(spec_url, ParsedData(r, spec_url).value)

\* The HTTPException after the last candidate; last_error is Null or
\* [message |-> the message of the last round].
FetchFailed(last_error) ==
    HttpError(502, IF IsNull(last_error)
                   THEN <<Lit("Failed to fetch OpenAPI spec from any tried URL.")>>
                   ELSE last_error.message)

(***************************************************************************)
(* The fetch specification: doc holds the URL a request names, the         *)
(* configured allowlist and, for each candidate in turn, the answer of the *)
(* remote server; call holds the position of _fetch_external_openapi and   *)
(* the URLs it has requested so far.                                       *)
(***************************************************************************)
FetchUrls ==
    { <<"h", "t", "t", "p", "s", ":", "/", "/", "a", "p", "i", ".", "x", ".", "c", "o", "m">>, <<"h", "t", "t", "p", "s", ":", "/", "/", "a", "p", "i", ".", "x", ".", "c", "o", "m", "/">>, <<" ", "h", "t", "t", "p", "s", ":", "/", "/", "a", "p", "i", ".", "x", ".", "c", "o", "m", "/", "v", "1", " ">>,
      <<"h", "t", "t", "p", "s", ":", "/", "/", "a", "p", "i", ".", "x", ".", "c", "o", "m", "/", "o", "p", "e", "n", "a", "p", "i", ".", "j", "s", "o", "n">>, <<"h", "t", "t", "p", "s", ":", "/", "/", "a", "p", "i", ".", "x", ".", "c", "o", "m", "/", "s", "p", "e", "c", ".", "Y", "A", "M", "L">>,
      <<"h", "t", "t", "p", "s", ":", "/", "/", "a", "p", "i", ".", "x", ".", "c", "o", "m", "/", "d", "o", "c", "s", "/">>, <<"H", "T", "T", "P", "S", ":", "/", "/", "a", "p", "i", ".", "x", ".", "c", "o", "m", "?", "n", "e", "x", "t", "=", "/", "d", "o", "c", "s">>,
      <<"h", "t", "t", "p", "s", ":", "/", "/", "e", "v", "i", "l", ".", "c", "o", "m">>, <<"h", "t", "t", "p", "s", ":", "/", "/", "a", "p", "i", ".", "x", ".", "c", "o", "m", "@", "e", "v", "i", "l", ".", "c", "o", "m">>,
      <<"h", "t", "t", "p", "s", ":", "/", "/", "a", "p", "i", ".", "x", ".", "c", "o", "m", ".", "e", "v", "i", "l", ".", "c", "o", "m">>, <<"h", "t", "t", "p", "s", ":", "/", "/", "e", "v", "i", "l", ".", "c", "o", "m", "/", "h", "t", "t", "p", "s", ":", "/", "/", "a", "p", "i", ".", "x", ".", "c", "o", "m">>,
      <<"h", "t", "t", "p", "s", ":", "/", "/", "e", "v", "i", "l", ".", "c", "o", "m", "#", "h", "t", "t", "p", "s", ":", "/", "/", "a", "p", "i", ".", "x", ".", "c", "o", "m">>, <<"h", "t", "t", "p", ":", "/", "/", "a", "p", "i", ".", "x", ".", "c", "o", "m">>,
      <<"f", "t", "p", ":", "/", "/", "a", "p", "i", ".", "x", ".", "c", "o", "m">>, <<"a", "p", "i", ".", "x", ".", "c", "o", "m">>, <<"/", "/", "a", "p", "i", ".", "x", ".", "c", "o", "m">> }

Allowlists ==
    { <<>>, <<<<"h", "t", "t", "p", "s", ":", "/", "/", "a", "p", "i", ".", "x", ".", "c", "o", "m">>>>, <<<<"h", "t", "t", "p", ":", "/", "/", "b", ".", "c", "o", "m">>, <<"h", "t", "t", "p", "s", ":", "/", "/", "a", "p", "i", ".", "x", ".", "c", "o", "m", "/">>>> }

\* A document a server may answer with.
SpecDoc(version_key, title) ==
    [k \in {version_key, "info", "paths"} |->
       IF k = "info" THEN [title |-> title, version |-> <<"1", ".", "0">>]
       ELSE IF k = "paths" THEN Mapping(<<Entry(<<"/", "a">>, Mapping(<<Entry(K_get, OpPlain)>>))>>)
       ELSE <<"3", ".", "0", ".", "0">>]

Answer(status, content_type, json, yaml) ==
    [kind |-> "response", status |-> status, content_type |-> content_type,
     json |-> json, yaml |-> yaml]

NotFound ==
    Answer(404, <<"a", "p", "p", "l", "i", "c", "a", "t", "i", "o", "n", "/", "j", "s", "o", "n">>, [value |-> [detail |-> <<"N", "o", "t", " ", "F", "o", "u", "n", "d">>]],
           [value |-> [detail |-> <<"N", "o", "t", " ", "F", "o", "u", "n", "d">>]])

Answers ==
    { NotFound,
      [kind |-> "request_error", message |-> <<"t", "i", "m", "e", "d", " ", "o", "u", "t">>],
      Answer(200, <<"t", "e", "x", "t", "/", "h", "t", "m", "l", ";", " ", "c", "h", "a", "r", "s", "e", "t", "=", "u", "t", "f", "-", "8">>, [raises |-> <<"E", "x", "p", "e", "c", "t", "i", "n", "g", " ", "v", "a", "l", "u", "e">>],
             [value |-> Str(<<"<", "h", "t", "m", "l", ">">>)]),
      Answer(200, <<>>, [raises |-> <<"E", "x", "p", "e", "c", "t", "i", "n", "g", " ", "v", "a", "l", "u", "e">>], [raises |-> <<"b", "a", "d", " ", "m", "a", "p", "p", "i", "n", "g">>]),
      Answer(200, <<"a", "p", "p", "l", "i", "c", "a", "t", "i", "o", "n", "/", "j", "s", "o", "n">>, [value |-> [list |-> <<>>]], [value |-> [list |-> <<>>]]),
      Answer(200, <<"A", "p", "p", "l", "i", "c", "a", "t", "i", "o", "n", "/", "J", "S", "O", "N", ";", " ", "c", "h", "a", "r", "s", "e", "t", "=", "u", "t", "f", "-", "8">>, [value |-> [detail |-> <<"N", "o", "t", " ", "F", "o", "u", "n", "d">>]],
             [value |-> [detail |-> <<"N", "o", "t", " ", "F", "o", "u", "n", "d">>]]),
      Answer(200, <<"a", "p", "p", "l", "i", "c", "a", "t", "i", "o", "n", "/", "j", "s", "o", "n">>, [value |-> [paths |-> Mapping(<<>>)]],
             [value |-> [paths |-> Mapping(<<>>)]]),
      Answer(200, <<"a", "p", "p", "l", "i", "c", "a", "t", "i", "o", "n", "/", "j", "s", "o", "n">>, [value |-> SpecDoc("openapi", <<"X">>)],
             [value |-> SpecDoc("openapi", <<"X">>)]),
      Answer(200, <<"a", "p", "p", "l", "i", "c", "a", "t", "i", "o", "n", "/", "y", "a", "m", "l">>, [raises |-> <<"E", "x", "p", "e", "c", "t", "i", "n", "g", " ", "v", "a", "l", "u", "e">>],
             [value |-> SpecDoc("swagger", <<"Y">>)]),
      Answer(200, <<"t", "e", "x", "t", "/", "p", "l", "a", "i", "n">>, [value |-> Str(<<"s", "w", "a", "g", "g", "e", "r">>)],
             [value |-> SpecDoc("swagger", <<"Z">>)]) }

\* The places of the candidate list where a server answers something else
\* than 404.
AnswerPlaces == {<<1, 2>>, <<4, 13>>}

\* What the later of the two places answers.
LaterAnswers ==
    { NotFound,
      [kind |-> "request_error", message |-> <<"t", "i", "m", "e", "d", " ", "o", "u", "t">>],
      Answer(200, <<"a", "p", "p", "l", "i", "c", "a", "t", "i", "o", "n", "/", "j", "s", "o", "n">>, [value |-> SpecDoc("openapi", <<"X">>)],
             [value |-> SpecDoc("openapi", <<"X">>)]),
      Answer(200, <<"t", "e", "x", "t", "/", "p", "l", "a", "i", "n">>, [value |-> Str(<<"s", "w", "a", "g", "g", "e", "r">>)],
             [value |-> SpecDoc("swagger", <<"Z">>)]) }

Servers ==
    {[i \in 1..Len(SPEC_URL_SUFFIXES) |->
        IF i = p[1] THEN ra ELSE IF i = p[2] THEN rb ELSE NotFound] :
       p \in AnswerPlaces, ra \in Answers, rb \in LaterAnswers}

FetchCalled == call.op = "_fetch_external_openapi"

InitFetch ==
    /\ doc \in [openapi_url : FetchUrls, allowed_openapi_origins : Allowlists,
                server : Servers]
    /\ call = [op |-> "none"]
    /\ out = Null

\* Lines 102-125: the checks and the candidate list.
FetchStart ==
    /\ call.op = "none"
    /\ LET raised == FetchPrecheck(doc.openapi_url, doc.allowed_openapi_origins)
       IN  /\ call' = [op |-> "_fetch_external_openapi",
                       pc |-> IF IsNull(raised) THEN "loop" ELSE "done",
                       candidates |-> IF IsNull(raised) THEN Candidates(doc.openapi_url)
                                      ELSE <<>>,
                       i |-> 1, last_error |-> Null, requested |-> <<>>]
           /\ out' = raised
    /\ UNCHANGED doc

\* Lines 126-169: one round of the loop, with its request.
FetchCandidate ==
    /\ FetchCalled /\ call.pc = "loop" /\ call.i <= Len(call.candidates)
    /\ LET round == FetchRound(call.candidates[call.i], doc.server[call.i])
       IN  /\ call' = [call EXCEPT
                         !.requested = Append(@, call.candidates[call.i]),
                         !.i = @ + 1,
                         !.pc = IF HasKey(round, "continue") THEN "loop" ELSE "done",
                         !.last_error = IF HasKey(round, "continue")
                                        THEN [message |-> round.continue] ELSE @]
           /\ out' = IF HasKey(round, "continue") THEN out
                     ELSE IF HasKey(round, "raise") THEN round.raise
                     ELSE round.return
    /\ UNCHANGED doc

\* Line 171: no candidate is left.
FetchExhausted ==
    /\ FetchCalled /\ call.pc = "loop" /\ call.i > Len(call.candidates)
    /\ call' = [call EXCEPT !.pc = "done"]
    /\ out' = FetchFailed(call.last_error)
    /\ UNCHANGED doc

\* The result reaches the caller.
FetchReturn ==
    /\ FetchCalled /\ call.pc = "done"
    /\ call' = [op |-> "none"]
    /\ out' = Null
    /\ UNCHANGED doc

NextFetch ==
    \/ FetchStart
    \/ FetchCandidate
    \/ FetchExhausted
    \/ FetchReturn

SpecFetch == InitFetch /\ [][NextFetch]_vars

(***************************************************************************)
(* Claims about the fetch.                                                 *)
(***************************************************************************)
\* The call is over and its checks before the loop passed.
FetchLoopDone ==
    /\ FetchCalled /\ call.pc = "done"
    /\ IsNull(FetchPrecheck(doc.openapi_url, doc.allowed_openapi_origins))

\* The candidates whose answer is a valid OpenAPI/Swagger document.
ValidCandidates ==
    {i \in 1..Len(Candidates(doc.openapi_url)) :
       HasKey(FetchRound(Candidates(doc.openapi_url)[i], doc.server[i]), "return")}

\* C24: _fetch_external_openapi returns the document of the first candidate,
\* in the order of the suffix list, whose answer is a valid OpenAPI/Swagger
\* document, whatever the candidates before it answered, and raises only
\* when no candidate answers with one.
C24_FirstValidCandidateWins ==
    FetchLoopDone =>
        IF ValidCandidates = {} THEN IsHttpError(out)
        ELSE LET first == CHOOSE i \in ValidCandidates : \A j \in ValidCandidates : i <= j
             IN  out = FetchRound(Candidates(doc.openapi_url)[first], doc.server[first]).return

\* The scheme and host a client connects to for a URL: the scheme in lower
\* case and the authority up to the first "/", "?" or "#", without its
\* userinfo.
ConnectOrigin(url) ==
    LET colon == FindFrom(url, {":"}, 1)
        stop == FindFrom(url, {"/", "?", "#"}, colon + 3)
        at == {i \in (colon + 3)..(stop - 1) : url[i] = "@"}
    IN  LowerText(SubSeq(url, 1, colon + 2))
        \o SubSeq(url, IF at = {} THEN colon + 3 ELSE SetMax(at) + 1, stop - 1)

\* The origins of the allowlist, without a trailing slash.
AllowedOrigins ==
    {RStrip(doc.allowed_openapi_origins[i], "/") :
       i \in 1..Len(doc.allowed_openapi_origins)}

\* C30: with a non-empty allowlist every URL the fetch requests connects to
\* an origin of the allowlist, the origin of the URL that was checked; for a
\* URL of another origin the call raises with no request made.
C30_NoRequestOutsideAllowlist ==
    FetchCalled /\ doc.allowed_openapi_origins # <<>> =>
        /\ \A k \in 1..Len(call.requested) :
              /\ ConnectOrigin(call.requested[k]) \in AllowedOrigins
              /\ ConnectOrigin(call.requested[k]) = OriginFromUrl(doc.openapi_url)
        /\ OriginFromUrl(doc.openapi_url) \notin AllowedOrigins =>
              /\ call.requested = <<>>
              /\ call.pc = "done"
              /\ IsHttpError(out) /\ out.status \in {400, 403}

\* A base URL of an allowed origin whose candidates were all requested, and
\* the call is over.
C30_Witness ==
    /\ FetchCalled /\ call.pc = "done"
    /\ doc.allowed_openapi_origins # <<>>
    /\ Len(call.requested) = Len(SPEC_URL_SUFFIXES)

(***************************************************************************)
(* src/app/main.py: the request handlers.  Handlers are plain functions,   *)
(* which the server runs on worker threads, so two requests interleave at  *)
(* every step that reads or writes app.openapi_schema.  The settings have  *)
(* no OpenAI key: the overview is None and examples come from templates.   *)
(***************************************************************************)
\* The whole loop of lines 126-171 on a list of candidates.
RECURSIVE FetchLoop(_, _, _, _)
FetchLoop(candidates, server, i, last_error) ==
    IF i > Len(candidates) THEN FetchFailed(last_error)
    ELSE LET round == FetchRound(candidates[i], server[i])
         IN  IF HasKey(round, "continue")
             THEN FetchLoop(candidates, server, i + 1, [message |-> round.continue])
             ELSE IF HasKey(round, "raise") THEN round.raise
             ELSE round.return

\* Lines 102-171 on the outcome of the checks and the candidate list.
FetchChecked(raised, candidates, remote) ==
    IF ~IsNull(raised) THEN raised
    ELSE FetchLoop(candidates, [i \in 1..Len(candidates) |-> remote[candidates[i]]], 1, Null)

\* _fetch_external_openapi(openapi_url) against a remote that answers
\* remote[u] to a request of u: the document, or the HTTPException raised.
FetchExternalOpenapi(openapi_url, allowed_openapi_origins, remote) ==
    FetchChecked(FetchPrecheck(openapi_url, allowed_openapi_origins),
                 Candidates(openapi_url), remote)

\* path.rsplit("/", 1)[0] of a path.
RSplitHead(path) ==
    LET at == {i \in 1..Len(path) : path[i] = "/"}
    IN  IF at = {} THEN path ELSE SubSeq(path, 1, SetMax(at) - 1)

\* Lines 186-191: whether the last segment of the path is dropped.
IsSpecPath(path_lower) ==
    \/ EndsWith(path_lower, <<"/", "a", "p", "i", "-", "d", "o", "c", "s">>)
    \/ EndsWith(path_lower, <<"/", "d", "o", "c", "s">>)
    \/ EndsWith(path_lower, <<"/", "o", "p", "e", "n", "a", "p", "i">>)
    \/ \E ending \in {<<"o", "p", "e", "n", "a", "p", "i", ".", "j", "s", "o", "n">>, <<"s", "w", "a", "g", "g", "e", "r", ".", "j", "s", "o", "n">>, <<"o", "p", "e", "n", "a", "p", "i", ".", "y", "a", "m", "l">>,
                      <<"s", "w", "a", "g", "g", "e", "r", ".", "y", "a", "m", "l">>, <<"o", "p", "e", "n", "a", "p", "i", ".", "y", "m", "l">>, <<"s", "w", "a", "g", "g", "e", "r", ".", "y", "m", "l">>,
                      <<"a", "p", "i", "-", "d", "o", "c", "s", ".", "j", "s", "o", "n">>} : EndsWith(path_lower, ending)
    \/ EndsWith(path_lower, <<".", "j", "s", "o", "n">>)
    \/ EndsWith(path_lower, <<".", "y", "a", "m", "l">>)
    \/ EndsWith(path_lower, <<".", "y", "m", "l">>)

BaseUrlOfParsed(parsed, path) ==
    IF parsed.scheme = <<>> \/ parsed.netloc = <<>> THEN <<>>
    ELSE parsed.scheme \o <<":", "/", "/">> \o parsed.netloc
         \o (IF IsSpecPath(LowerText(path)) THEN RSplitHead(path) ELSE path)

\* _base_url_from_openapi_url(openapi_url).
BaseUrlFromOpenapiUrl(openapi_url) ==
    BaseUrlOfParsed(UrlParse(RStrip(StripWs(openapi_url), "/")),
                    RStrip(UrlParse(RStrip(StripWs(openapi_url), "/")).path, "/"))

\* effective_url read from the settings alone.
EffectiveUrlDefaultOnly(openapi_url, default_openapi_url) == default_openapi_url

\* effective_url = openapi_url or settings.default_openapi_url; a URL is
\* None or Str(text).
EffectiveUrl(openapi_url, default_openapi_url) ==
    IF PyTruthy(openapi_url) THEN openapi_url ELSE default_openapi_url

\* get_operation(openapi_schema, path, method).
GetOperation(openapi_schema, path, method) ==
    LET paths == IF HasKey(openapi_schema, "paths") /\ PyTruthy(openapi_schema.paths)
                 THEN openapi_schema.paths ELSE Mapping(<<>>)
        path_item == MappingGet(paths, path)
    IN  IF ~PyTruthy(path_item) \/ ~IsMapping(path_item) THEN Null
        ELSE IF IsDict(MappingGet(path_item, LowerText(method)))
        THEN MappingGet(path_item, LowerText(method))
        ELSE Null

\* ', '.join(sorted(allowed)), one item for each id.
RECURSIVE JoinIds(_, _)
JoinIds(ids, i) ==
    IF i > Len(ids) THEN <<>>
    ELSE (IF i > 1 THEN <<Lit(", ")>> ELSE <<>>) \o <<Txt("stack_id", ids[i])>>
         \o JoinIds(ids, i + 1)

\* generate_example(...) with no OpenAI key: the template (line 300), or the
\* AttributeError of _get_body_summary (line 270).
GenerateExample(method, path, stack, operation, base_url) ==
    IF IsError(GetBodySummary(operation)) THEN GetBodySummary(operation)
    ELSE [code |-> TemplateExample(method, path, stack, HasAuth(operation),
                                   GetBodySummary(operation).val, base_url)]

\* Lines 278-293 of api_reference_generate_example, once the schema and
\* the base URL are known.
GenerateExampleOn(body, schema, base_url) ==
    LET method == UpperText(IF body.method # <<>> THEN body.method ELSE K_get)
        op == GetOperation(schema, body.path, method)
    IN  IF body.stack \notin {STACKS[i].value : i \in 1..Len(STACKS)}
        THEN HttpError(400, <<Lit("stack must be one of: ")>>
                            \o JoinIds(SortedTexts({STACKS[i].value : i \in 1..Len(STACKS)}), 1))
        ELSE IF ~Truthy(op)
        THEN HttpError(404, <<Lit("Operation "), Txt("method", method), Lit(" "),
                              Txt("path", body.path), Lit(" not found in schema")>>)
        ELSE GenerateExample(method, body.path, body.stack, op, base_url)

(***************************************************************************)
(* The server specification: two requests in flight.  doc holds the        *)
(* settings, the remote documents, app.openapi_schema and the requests;    *)
(* call holds each request's position and its locals; out holds the        *)
(* responses.                                                              *)
(***************************************************************************)
U_x == <<"h", "t", "t", "p", "s", ":", "/", "/", "a", "p", "i", ".", "x", ".", "c", "o", "m", "/", "o", "p", "e", "n", "a", "p", "i", ".", "j", "s", "o", "n">>

U_y == <<"h", "t", "t", "p", "s", ":", "/", "/", "a", "p", "i", ".", "y", ".", "c", "o", "m", "/", "v", "1", "/", "s", "w", "a", "g", "g", "e", "r", ".", "j", "s", "o", "n">>

U_down == <<"h", "t", "t", "p", "s", ":", "/", "/", "d", "o", "w", "n", ".", "x", ".", "c", "o", "m">>

DocumentX == SpecDoc("openapi", <<"X">>)

DocumentY == SpecDoc("swagger", <<"Y">>)

\* What the remote hosts answer to a request of spec_url.
Remote ==
    [spec_url \in {U_x, U_y} \cup {U_down \o SPEC_URL_SUFFIXES[i] : i \in 1..Len(SPEC_URL_SUFFIXES)} |->
       IF spec_url = U_x
       THEN Answer(200, <<"a", "p", "p", "l", "i", "c", "a", "t", "i", "o", "n", "/", "j", "s", "o", "n">>, [value |-> DocumentX], [value |-> DocumentX])
       ELSE IF spec_url = U_y
       THEN Answer(200, <<"a", "p", "p", "l", "i", "c", "a", "t", "i", "o", "n", "/", "j", "s", "o", "n">>, [value |-> DocumentY], [value |-> DocumentY])
       ELSE NotFound]

\* The document get_openapi(...) builds for this application's routes.
OwnSchema ==
    [openapi |-> <<"3", ".", "1", ".", "0">>,
     info |-> [title |-> <<"M", "y", " ", "A", "P", "I">>, version |-> <<"1", ".", "0", ".", "0">>],
     paths |-> Mapping(<<Entry(<<"/", "h", "e", "a", "l", "t", "h">>, Mapping(<<Entry(K_get, [summary |-> <<"H", "e", "a", "l", "t", "h">>])>>))>>)]

\* str(request.base_url)
RequestBaseUrl == <<"h", "t", "t", "p", ":", "/", "/", "h", "/">>

AgentDocsRequests ==
    {[handler |-> "api_agent_docs_json", openapi_url |-> u] :
       u \in {Null, Str(<<>>), Str(U_x), Str(U_y), Str(U_down)}}

DocsPageRequests == {[handler |-> "api_reference_page", openapi_url |-> Null]}

GenerateExampleBody(openapi_url, path, method, stack) ==
    [handler |-> "api_reference_generate_example", openapi_url |-> openapi_url,
     path |-> path, method |-> method, stack |-> stack, base_url |-> Null]

GenerateExampleRequests ==
    { GenerateExampleBody(Null, <<"/", "h", "e", "a", "l", "t", "h">>, K_get, <<"v", "a", "n", "i", "l", "l", "a">>),
      GenerateExampleBody(Null, <<"/", "h", "e", "a", "l", "t", "h">>, K_post, <<"v", "a", "n", "i", "l", "l", "a">>),
      GenerateExampleBody(Null, <<"/", "h", "e", "a", "l", "t", "h">>, K_get, <<"j", "q", "u", "e", "r", "y">>),
      GenerateExampleBody(Str(U_x), <<"/", "a">>, <<"G", "E", "T">>, <<"f", "l", "u", "t", "t", "e", "r">>),
      GenerateExampleBody(Str(U_x), <<"/", "z", "z">>, K_get, <<"f", "l", "u", "t", "t", "e", "r">>),
      GenerateExampleBody(Str(U_x), <<"/", "a">>, K_get, <<"R", "e", "a", "c", "t", "-", "F", "e", "t", "c", "h">>),
      GenerateExampleBody(Str(U_y), <<"/", "a">>, K_get, <<>>),
      GenerateExampleBody(Str(U_down), <<"/", "a">>, K_get, <<"j", "q", "u", "e", "r", "y">>) }

Requests == AgentDocsRequests \cup DocsPageRequests \cup GenerateExampleRequests

Workers == 1..2

ServerCalled == call.op = "serve"

InitServer ==
    /\ doc \in [default_openapi_url : {Null, Str(U_y)},
                allowed_openapi_origins : {<<>>, <<<<"h", "t", "t", "p", "s", ":", "/", "/", "a", "p", "i", ".", "x", ".", "c", "o", "m", "/">>>>},
                openapi_schema : {Null},
                requests : [Workers -> Requests]]
    /\ call = [op |-> "serve",
               workers |-> [w \in Workers |-> [pc |-> "start", schema |-> Null, base_url |-> <<>>]]]
    /\ out = [w \in Workers |-> Null]

EffectiveUrlOf(w) == EffectiveUrl(doc.requests[w].openapi_url, doc.default_openapi_url)

At(w, pc) == ServerCalled /\ call.workers[w].pc = pc

Goto(w, pc, schema, base_url) ==
    call' = [call EXCEPT !.workers[w] = [pc |-> pc, schema |-> schema, base_url |-> base_url]]

\* The outcome of the fetch becomes the response or the local schema.
Fetched(w, effective_url, schema) ==
    IF IsHttpError(schema)
    THEN Goto(w, "done", Null, <<>>) /\ out' = [out EXCEPT ![w] = schema]
    ELSE Goto(w, "respond", schema, BaseUrlFromOpenapiUrl(effective_url)) /\ UNCHANGED out

\* Lines 202-204, 251-253, 272-274: the external document, or its error as
\* the response.
FetchBranch(w) ==
    /\ At(w, "start")
    /\ doc.requests[w].handler # "api_reference_page"
    /\ PyTruthy(EffectiveUrlOf(w))
    /\ Fetched(w, EffectiveUrlOf(w).str,
               FetchExternalOpenapi(EffectiveUrlOf(w).str, doc.allowed_openapi_origins, Remote))
    /\ UNCHANGED doc

\* Line 66: custom_openapi() tests the memo.
CustomOpenapiTest(w) ==
    /\ At(w, "start")
    /\ doc.requests[w].handler = "api_reference_page" \/ ~PyTruthy(EffectiveUrlOf(w))
    /\ Goto(w, IF IsNull(doc.openapi_schema) THEN "generate" ELSE "read", Null, <<>>)
    /\ UNCHANGED <<doc, out>>

\* Lines 67-72: the memo is set from get_openapi.
CustomOpenapiGenerate(w) ==
    /\ At(w, "generate")
    /\ doc' = [doc EXCEPT !.openapi_schema = OwnSchema]
    /\ Goto(w, "read", Null, <<>>)
    /\ UNCHANGED out

\* Line 73 and lines 207, 225, 256, 276: the memo is returned.
CustomOpenapiReturn(w) ==
    /\ At(w, "read")
    /\ Goto(w, "respond", doc.openapi_schema, RequestBaseUrl)
    /\ UNCHANGED <<doc, out>>

\* Lines 208-212: the payload; the overview is None.
AgentDocsRespond(w) ==
    /\ At(w, "respond")
    /\ doc.requests[w].handler = "api_agent_docs_json"
    /\ out' = [out EXCEPT ![w] = BuildApiReferenceData(call.workers[w].schema,
                  IF PyTruthy(EffectiveUrlOf(w)) THEN call.workers[w].base_url
                  ELSE RStrip(call.workers[w].base_url, "/"))]
    /\ Goto(w, "done", call.workers[w].schema, call.workers[w].base_url)
    /\ UNCHANGED doc

\* Lines 225-226: the page.
DocsPageRespond(w) ==
    /\ At(w, "respond")
    /\ doc.requests[w].handler = "api_reference_page"
    /\ out' = [out EXCEPT ![w] = [html |-> BuildApiReferenceHtml(call.workers[w].schema,
                                              RStrip(call.workers[w].base_url, "/"))]]
    /\ Goto(w, "done", call.workers[w].schema, call.workers[w].base_url)
    /\ UNCHANGED doc

\* Lines 274, 277-293: the example, or the error.  body.base_url is None.
GenerateExampleRespond(w) ==
    /\ At(w, "respond")
    /\ doc.requests[w].handler = "api_reference_generate_example"
    /\ out' = [out EXCEPT ![w] = GenerateExampleOn(doc.requests[w], call.workers[w].schema,
                                                   RStrip(call.workers[w].base_url, "/"))]
    /\ Goto(w, "done", call.workers[w].schema, call.workers[w].base_url)
    /\ UNCHANGED doc

NextServer ==
    \/ \E w \in Workers : FetchBranch(w)
    \/ \E w \in Workers : CustomOpenapiTest(w)
    \/ \E w \in Workers : CustomOpenapiGenerate(w)
    \/ \E w \in Workers : CustomOpenapiReturn(w)
    \/ \E w \in Workers : AgentDocsRespond(w)
    \/ \E w \in Workers : DocsPageRespond(w)
    \/ \E w \in Workers : GenerateExampleRespond(w)

SpecServer == InitServer /\ [][NextServer]_vars

(***************************************************************************)
(* Claims about the handlers.                                              *)
(***************************************************************************)
IsGenerateExample(w) == doc.requests[w].handler = "api_reference_generate_example"

Served(w) == ServerCalled /\ call.workers[w].pc = "done"

\* The detail names every stack id.
ListsValidIds(detail) ==
    \A i \in 1..Len(STACKS) : \E k \in 1..Len(detail) : detail[k] = Txt("stack_id", STACKS[i].value)

\* The paths have no operation for the request's path and method.
OperationAbsent(paths, body) ==
    \/ ~MappingHas(paths, body.path)
    \/ ~MappingHas(MappingGet(paths, body.path), LowerText(body.method))

\* C21: a generate-example request with a stack that is none of the eleven
\* ids is answered with an error whose detail lists the valid ids, never
\* with code; a request with a valid stack for an operation that the schema
\* in use does not have is answered 404.
C21_UnknownStackRejected ==
    \A w \in Workers :
       Served(w) /\ IsGenerateExample(w) =>
          /\ doc.requests[w].stack \notin {STACKS[i].value : i \in 1..Len(STACKS)} =>
                /\ IsHttpError(out[w])
                /\ ListsValidIds(out[w].detail)
          /\ (/\ doc.requests[w].stack \in {STACKS[i].value : i \in 1..Len(STACKS)}
              /\ ~IsNull(call.workers[w].schema)
              /\ OperationAbsent(call.workers[w].schema.paths, doc.requests[w])) =>
                IsHttpError(out[w]) /\ out[w].status = 404

\* The document published at an external URL of the requests.
Published(url) == IF url = U_x THEN DocumentX ELSE DocumentY

\* C23: app.openapi_schema is None or this application's own schema; a
\* request whose effective URL is external works on the document published
\* at that URL, never on the memo or on the other URL's document, and its
\* payload carries that document's title.
C23_MemoIsOwnSchema ==
    ServerCalled =>
       /\ IsNull(doc.openapi_schema) \/ doc.openapi_schema = OwnSchema
       /\ \A w \in Workers :
             (/\ call.workers[w].pc \in {"respond", "done"}
              /\ PyTruthy(doc.requests[w].openapi_url)
              /\ doc.requests[w].handler # "api_reference_page") =>
                \/ Served(w) /\ IsHttpError(out[w])
                \/ /\ call.workers[w].schema = Published(doc.requests[w].openapi_url.str)
                   /\ call.workers[w].schema # OwnSchema
                   /\ (Served(w) /\ doc.requests[w].handler = "api_agent_docs_json") =>
                         out[w].title = Published(doc.requests[w].openapi_url.str).info.title

\* Both requests are answered, one from the memo and one from the document
\* of an external URL.
C23_Witness ==
    /\ Served(1) /\ Served(2)
    /\ doc.openapi_schema = OwnSchema
    /\ call.workers[1].schema = OwnSchema
    /\ doc.requests[2].openapi_url = Str(U_x)
    /\ call.workers[2].schema = DocumentX
    /\ doc.requests[1].handler = "api_agent_docs_json"
    /\ doc.requests[2].handler = "api_agent_docs_json"

(***************************************************************************)
(* src/app/docs_agent.py: the chat agent.  A completion is one call of     *)
(* client.chat.completions.create: line 495 of agent_chat, and line 279 of *)
(* generate_example, which the tool generate_code_example runs with the    *)
(* agent's API key.  A reply of the service is a message or an exception.  *)
(***************************************************************************)
MaxRounds == 10

CHAT_SYSTEM_PREFIX ==
    Lit("You are a helpful assistant for an API. Use the API reference below to answer questions. Be concise. If the user asks for code, you can use the generate_code_example tool.")

T_get_api_overview == <<"g", "e", "t", "_", "a", "p", "i", "_", "o", "v", "e", "r", "v", "i", "e", "w">>

T_get_endpoint_details == <<"g", "e", "t", "_", "e", "n", "d", "p", "o", "i", "n", "t", "_", "d", "e", "t", "a", "i", "l", "s">>

T_generate_code_example == <<"g", "e", "n", "e", "r", "a", "t", "e", "_", "c", "o", "d", "e", "_", "e", "x", "a", "m", "p", "l", "e">>

T_None == <<"N", "o", "n", "e">>

Message(role, content) == [role |-> role, content |-> content]

\* The message of a reply with its tool calls, as lines 502-507 append it.
AssistantMessage(content, tool_calls) ==
    [role |-> "assistant",
     content |-> IF IsNull(content) THEN <<>> ELSE <<Txt("content", content.str)>>,
     tool_calls |-> [k \in 1..Len(tool_calls) |->
                       [id |-> tool_calls[k].id, type |-> "function",
                        function |-> [name |-> tool_calls[k].function.name,
                                      arguments |-> IF tool_calls[k].function.arguments.text # <<>>
                                                    THEN tool_calls[k].function.arguments.text
                                                    ELSE <<"{", "}">>]]]]

\* The tool message of the first call of the reply, whatever k is.
ToolMessageOfFirstCall(tool_calls, k, result) ==
    [role |-> "tool", tool_call_id |-> tool_calls[1].id, content |-> result]

\* Lines 517-521: the tool message of the k-th call.
ToolMessage(tool_calls, k, result) ==
    [role |-> "tool", tool_call_id |-> tool_calls[k].id, content |-> result]

\* Lines 511-515: json.loads(arguments or "{}"), {} when it raises.  The
\* arguments of a call carry their text and what json.loads makes of it.
ToolArguments(arguments) ==
    IF arguments.text = <<>> \/ HasKey(arguments.parsed, "raises") THEN Mapping(<<>>)
    ELSE arguments.parsed.value

\* arguments.get(key, default) with a str value.
ArgumentText(arguments, key, default) ==
    IF MappingHas(arguments, key) THEN MappingGet(arguments, key).str ELSE default

\* (arguments.get("method") or "get").upper()
ArgumentMethod(arguments) ==
    UpperText(IF PyTruthy(MappingGet(arguments, <<"m", "e", "t", "h", "o", "d">>))
              THEN MappingGet(arguments, <<"m", "e", "t", "h", "o", "d">>).str ELSE K_get)

\* Line 446: one parameter's line.
RECURSIVE ParameterLines(_, _)
ParameterLines(params, i) ==
    IF i > Len(params) THEN <<>>
    ELSE <<<<Lit("  - "), Txt("name", IF HasKey(params[i], "name") THEN params[i].name ELSE T_None),
             Lit(" ("), Txt("in", IF HasKey(params[i], "in") THEN params[i].in ELSE T_None),
             Lit("): "), Txt("description", GetText(params[i], "description"))>>>>
         \o ParameterLines(params, i + 1)

\* ", ".join(responses.keys())
RECURSIVE JoinKeys(_, _)
JoinKeys(es, i) ==
    IF i > Len(es) THEN <<>>
    ELSE (IF i > 1 THEN <<Lit(", ")>> ELSE <<>>) \o <<Txt("status", es[i].name)>>
         \o JoinKeys(es, i + 1)

\* Lines 443-447: the details of an operation that was found.
EndpointDetails(method, path, op, params, body, responses) ==
    IF (\E i \in 1..Len(params) : ~IsDict(params[i])) \/ ~IsDict(body) \/ ~IsMapping(responses)
    THEN AttributeError
    ELSE [val |-> JoinNl(<<<<Txt("method", method), Lit(" "), Txt("path", path)>>,
                           <<Txt("summary", IF GetText(op, "summary") # <<>> THEN op.summary
                                            ELSE GetText(op, "description"))>>,
                           <<Lit("Parameters:")>>>>
                         \o ParameterLines(params, 1)
                         \o <<<<Lit("Request body: "),
                                IF GetText(body, "description") # <<>>
                                THEN Txt("description", body.description)
                                ELSE Lit("see schema")>>,
                              <<Lit("Responses: ")>> \o JoinKeys(responses.entries, 1)>>)]

\* Lines 439-447: the tool get_endpoint_details.
GetEndpointDetails(arguments, op) ==
    IF ~Truthy(op)
    THEN [val |-> <<Lit("Endpoint "), Txt("method", ArgumentMethod(arguments)), Lit(" "),
                    Txt("path", ArgumentText(arguments, <<"p", "a", "t", "h">>, <<>>)), Lit(" not found.")>>]
    ELSE EndpointDetails(ArgumentMethod(arguments), ArgumentText(arguments, <<"p", "a", "t", "h">>, <<>>), op,
                         GetList(op, "parameters"),
                         IF HasKey(op, "requestBody") /\ PyTruthy(op.requestBody)
                         THEN op.requestBody ELSE EmptyDict,
                         IF HasKey(op, "responses") /\ PyTruthy(op.responses)
                         THEN op.responses ELSE Mapping(<<>>))

\* generate_example(...) with an API key (lines 268-300): the code of the
\* completion, stripped, or the template when the completion raises or its
\* code is empty.  The replies here carry no code fence.
GenerateExampleWithKey(method, path, stack, op, base_url, reply) ==
    IF IsError(GetBodySummary(op)) THEN GetBodySummary(op)
    ELSE IF reply.kind = "message" /\ ~IsNull(reply.content) /\ StripWs(reply.content.str) # <<>>
    THEN [val |-> <<Txt("code", StripWs(reply.content.str))>>]
    ELSE [val |-> <<Txt("code", TemplateExample(method, path, stack, HasAuth(op),
                                                GetBodySummary(op).val, base_url))>>]

\* Lines 448-454: the tool generate_code_example.
GenerateCodeExample(arguments, op, base_url, reply) ==
    GenerateExampleWithKey(ArgumentMethod(arguments), ArgumentText(arguments, <<"p", "a", "t", "h">>, <<>>),
                           ArgumentText(arguments, <<"s", "t", "a", "c", "k">>, <<"r", "e", "a", "c", "t", "-", "f", "e", "t", "c", "h">>),
                           IF Truthy(op) THEN op ELSE EmptyDict, base_url, reply)

\* _run_tool(name, arguments, openapi_schema, base_url, api_key): the text,
\* or the exception; reply is what the completion of generate_example gets.
RunTool(name, arguments, openapi_schema, base_url, reply) ==
    IF name = T_get_api_overview
    THEN [val |-> RunGetApiOverview(openapi_schema).text]
    ELSE IF name \in {T_get_endpoint_details, T_generate_code_example} /\ ~IsMapping(arguments)
    THEN AttributeError
    ELSE IF name = T_get_endpoint_details
    THEN GetEndpointDetails(arguments, GetOperation(openapi_schema, ArgumentText(arguments, <<"p", "a", "t", "h">>, <<>>),
                                                    ArgumentMethod(arguments)))
    ELSE IF name = T_generate_code_example
    THEN GenerateCodeExample(arguments, GetOperation(openapi_schema, ArgumentText(arguments, <<"p", "a", "t", "h">>, <<>>),
                                                     ArgumentMethod(arguments)), base_url, reply)
    ELSE [val |-> <<Lit("Unknown tool.")>>]

\* Lines 482-485: the system message.
SystemMessage(api_summary, tag_set) ==
    Message("system", <<CHAT_SYSTEM_PREFIX, Lit("\n\nAPI reference:\n")>> \o api_summary
                      \o (IF ~IsNull(tag_set) /\ tag_set.set # {}
                          THEN <<Lit("\n\n(Context is limited to the selected API modules above.)")>>
                          ELSE <<>>))

\* Line 480: set(context_tag_names) if context_tag_names else None
TagSetOf(context_tag_names) ==
    IF IsNull(context_tag_names) \/ context_tag_names.list = <<>> THEN Null
    ELSE [set |-> {context_tag_names.list[i] : i \in 1..Len(context_tag_names.list)}]

\* Line 500: the answer of a reply without tool calls.
FinalAnswer(content) ==
    Message("assistant",
            IF ~IsNull(content) /\ StripWs(content.str) # <<>>
            THEN <<Txt("content", StripWs(content.str))>>
            ELSE <<Lit("(No response)")>>)

NoKeyAnswer == Message("assistant", <<Lit("Chat is not available (no API key configured).")>>)

LimitAnswer ==
    Message("assistant", <<Lit("I hit a limit on tool use. Please try a shorter question.")>>)

\* Lines 523-525: the answer for an exception.
Apology(e) == Message("assistant", <<Lit("Sorry, something went wrong: "), Txt("e", e)>>)

(***************************************************************************)
(* The chat specification: one call of agent_chat.  doc holds the          *)
(* arguments and what the service will reply, call the position, the       *)
(* conversation and the counters, out the answer.                          *)
(***************************************************************************)
ToolCall(id, name, text, parsed) ==
    [id |-> id, function |-> [name |-> name, arguments |-> [text |-> text, parsed |-> parsed]]]

Reply(content, tool_calls) == [kind |-> "message", content |-> content, tool_calls |-> tool_calls]

Failure == [kind |-> "raises", message |-> <<"t", "i", "m", "e", "d", " ", "o", "u", "t">>]

OpCreate ==
    [summary |-> <<"C", "r", "e", "a", "t", "e">>, parameters |-> <<[name |-> <<"i", "d">>, in |-> <<"p", "a", "t", "h">>], [description |-> Benign]>>,
     requestBody |-> [description |-> <<"T", "h", "e", " ", "i", "t", "e", "m">>],
     responses |-> Mapping(<<Entry(<<"2", "0", "1">>, [description |-> Benign]), Entry(<<"4", "0", "4">>, [description |-> Benign])>>)]

ChatSchema ==
    [openapi |-> <<"3", ".", "0", ".", "0">>, info |-> [title |-> <<"X">>, version |-> <<"1", ".", "0">>],
     paths |-> Mapping(<<Entry(<<"/", "a">>, Mapping(<<Entry(K_get, OpTagged), Entry(K_post, OpCreate)>>))>>)]

ReplyOverview ==
    Reply(Null, <<ToolCall(<<"c", "1">>, T_get_api_overview, <<"{", "}">>, [value |-> Mapping(<<>>)]),
                  ToolCall(<<"c", "2">>, <<"s", "e", "a", "r", "c", "h", "_", "w", "e", "b">>, <<>>, [raises |-> <<"E", "x", "p", "e", "c", "t", "i", "n", "g", " ", "v", "a", "l", "u", "e">>])>>)

ReplyExample ==
    Reply(Str(<<"O", "n", "e", " ", "m", "o", "m", "e", "n", "t", ".">>),
          <<ToolCall(<<"c", "3">>, T_generate_code_example, <<"{", "\"", "p", "a", "t", "h", "\"", ":", " ", "\"", "/", "a", "\"", ",", " ", "\"", "s", "t", "a", "c", "k", "\"", ":", " ", "\"", "v", "u", "e", "3", "\"", "}">>,
                     [value |-> Mapping(<<Entry(<<"p", "a", "t", "h">>, Str(<<"/", "a">>)), Entry(<<"s", "t", "a", "c", "k">>, Str(<<"v", "u", "e", "3">>))>>)])>>)

ReplyDetails ==
    Reply(Null,
          <<ToolCall(<<"c", "4">>, T_get_endpoint_details, <<"{", "\"", "p", "a", "t", "h", "\"", ":", " ", "\"", "/", "a", "\"", ",", " ", "\"", "m", "e", "t", "h", "o", "d", "\"", ":", " ", "\"", "p", "o", "s", "t", "\"", "}">>,
                     [value |-> Mapping(<<Entry(<<"p", "a", "t", "h">>, Str(<<"/", "a">>)), Entry(<<"m", "e", "t", "h", "o", "d">>, Str(K_post))>>)]),
            ToolCall(<<"c", "4">>, T_get_endpoint_details, <<"{", "\"", "p", "a", "t", "h", "\"", ":", " ">>, [raises |-> <<"E", "x", "p", "e", "c", "t", "i", "n", "g", " ", "v", "a", "l", "u", "e">>]),
            ToolCall(<<"c", "5">>, T_generate_code_example, <<"{", "\"", "p", "a", "t", "h", "\"", ":", " ", "\"", "/", "z", "z", "\"", "}">>,
                     [value |-> Mapping(<<Entry(<<"p", "a", "t", "h">>, Str(<<"/", "z", "z">>))>>)])>>)

ReplyBadArguments ==
    Reply(Null, <<ToolCall(<<"c", "6">>, T_get_api_overview, <<>>, [raises |-> <<"E", "x", "p", "e", "c", "t", "i", "n", "g", " ", "v", "a", "l", "u", "e">>]),
                  ToolCall(<<"c", "7">>, T_get_endpoint_details, <<"[", "1", "]">>, [value |-> [list |-> <<1>>]])>>)

\* The reply of round j under a pattern of tool use.
PatternReply(pattern, j) ==
    IF pattern = "overview" THEN ReplyOverview
    ELSE IF pattern = "example" THEN ReplyExample
    ELSE IF j % 2 = 1 THEN ReplyDetails ELSE ReplyExample

\* The replies that end the conversation.
LastReplies ==
    {Reply(Str(<<" ", "U", "s", "e", " ", "G", "E", "T", " ", "/", "a", ".", "\n">>), <<>>), Reply(Null, <<>>), Failure, ReplyBadArguments}

\* What the service replies to the completions of the loop, in order: tool
\* use for a number of rounds, then a reply that ends the conversation.
ReplyScripts ==
    {[j \in 1..MaxRounds |-> IF j <= k THEN PatternReply(pattern, j) ELSE last] :
       pattern \in {"overview", "example", "mixed"}, k \in {0, 1, 2, 5, MaxRounds - 1, MaxRounds},
       last \in LastReplies}

Histories ==
    {<<Message("user", <<Txt("content", <<"h", "i">>)>>)>>,
     <<Message("user", <<Txt("content", <<"h", "i">>)>>), Message("tool", <<Txt("content", <<"o", "k">>)>>),
       Message("assistant", <<>>), Message("user", <<Txt("content", <<"c", "o", "d", "e">>)>>)>>}

ChatCalled == call.op = "agent_chat"

InitChat ==
    /\ doc \in [messages : Histories, openapi_schema : {ChatSchema},
                base_url : {<<"h", "t", "t", "p", ":", "/", "/", "h">>},
                openai_api_key : {Str(<<"s", "k", "-", "x">>)},
                context_tag_names : {Null, [list |-> <<>>], [list |-> <<<<"A", "u", "t", "h">>>>]},
                replies : ReplyScripts,
                example_reply : {Reply(Str(<<" ", "f", "e", "t", "c", "h", "(", "'", "/", "a", "'", ")", "\n">>), <<>>), Failure}]
              \cup [messages : Histories, openapi_schema : {ChatSchema},
                    base_url : {<<"h", "t", "t", "p", ":", "/", "/", "h">>},
                    openai_api_key : {Null, Str(<<>>)},
                    context_tag_names : {Null},
                    replies : {[j \in 1..MaxRounds |-> Failure]},
                    example_reply : {Failure}]
    /\ call = [op |-> "none"]
    /\ out = Null

\* Lines 474-488: no key, or the conversation that opens the loop.
AgentChatStart ==
    /\ call.op = "none"
    /\ call' = [op |-> "agent_chat",
                pc |-> IF PyTruthy(doc.openai_api_key) THEN "loop" ELSE "done",
                all_messages |->
                    IF PyTruthy(doc.openai_api_key)
                    THEN <<SystemMessage(ApiSummaryText(doc.openapi_schema,
                                                        TagSetOf(doc.context_tag_names)).text,
                                         TagSetOf(doc.context_tag_names))>> \o doc.messages
                    ELSE <<>>,
                max_rounds |-> MaxRounds, completions |-> 0, tool_calls |-> <<>>, k |-> 1]
    /\ out' = IF PyTruthy(doc.openai_api_key) THEN Null ELSE NoKeyAnswer
    /\ UNCHANGED doc

\* Lines 489-508: one completion of the loop and what follows from its reply.
Completed(reply) ==
    /\ call' = [call EXCEPT
                  !.max_rounds = @ - 1,
                  !.completions = @ + 1,
                  !.pc = IF reply.kind = "message" /\ reply.tool_calls # <<>>
                         THEN "tools" ELSE "done",
                  !.tool_calls = IF reply.kind = "message" THEN reply.tool_calls ELSE <<>>,
                  !.k = 1,
                  !.all_messages = IF reply.kind = "message" /\ reply.tool_calls # <<>>
                                   THEN Append(@, AssistantMessage(reply.content, reply.tool_calls))
                                   ELSE @]
    /\ out' = IF reply.kind = "raises" THEN Apology(reply.message)
              ELSE IF reply.tool_calls = <<>> THEN FinalAnswer(reply.content)
              ELSE Null

AgentChatCompletion ==
    /\ ChatCalled /\ call.pc = "loop" /\ call.max_rounds > 0
    /\ Completed(doc.replies[MaxRounds - call.max_rounds + 1])
    /\ UNCHANGED doc

\* Lines 509-521: one tool call and its message, or the exception.
ToolRan(name, result) ==
    /\ call' = [call EXCEPT
                  !.completions = IF name = T_generate_code_example THEN @ + 1 ELSE @,
                  !.pc = IF IsError(result) THEN "done"
                         ELSE IF call.k = Len(call.tool_calls) THEN "loop" ELSE "tools",
                  !.k = @ + 1,
                  !.all_messages = IF IsError(result) THEN @
                                   ELSE Append(@, ToolMessage(call.tool_calls, call.k, result.val))]
    /\ out' = IF IsError(result)
              THEN Apology(<<"'", "l", "i", "s", "t", "'", " ", "o", "b", "j", "e", "c", "t", " ", "h", "a", "s", " ", "n", "o", " ", "a", "t", "t", "r", "i", "b", "u", "t", "e", " ", "'", "g", "e", "t", "'">>)
              ELSE Null

AgentChatTool ==
    /\ ChatCalled /\ call.pc = "tools"
    /\ ToolRan(call.tool_calls[call.k].function.name,
               RunTool(call.tool_calls[call.k].function.name,
                       ToolArguments(call.tool_calls[call.k].function.arguments),
                       doc.openapi_schema, doc.base_url, doc.example_reply))
    /\ UNCHANGED doc

\* Line 522: the rounds are used up.
AgentChatLimit ==
    /\ ChatCalled /\ call.pc = "loop" /\ call.max_rounds = 0
    /\ call' = [call EXCEPT !.pc = "done"]
    /\ out' = LimitAnswer
    /\ UNCHANGED doc

\* The answer reaches the caller.
AgentChatReturn ==
    /\ ChatCalled /\ call.pc = "done"
    /\ call' = [op |-> "none"]
    /\ out' = Null
    /\ UNCHANGED doc

NextChat ==
    \/ AgentChatStart
    \/ AgentChatCompletion
    \/ AgentChatTool
    \/ AgentChatLimit
    \/ AgentChatReturn

SpecChat == InitChat /\ [][NextChat]_vars

(***************************************************************************)
(* Claims about the chat agent.                                            *)
(***************************************************************************)
ToolCallRaises(tc) ==
    IsError(RunTool(tc.function.name, ToolArguments(tc.function.arguments),
                    doc.openapi_schema, doc.base_url, doc.example_reply))

\* The reply ends the conversation: the completion raises, the message has
\* no tool calls, or one of its tool calls raises.
ReplyEnds(reply) ==
    \/ reply.kind = "raises"
    \/ reply.tool_calls = <<>>
    \/ \E k \in 1..Len(reply.tool_calls) : ToolCallRaises(reply.tool_calls[k])

\* The rounds whose reply ends the conversation.
EndingRounds == {j \in 1..MaxRounds : ReplyEnds(doc.replies[j])}

FirstEnding == CHOOSE j \in EndingRounds : \A i \in EndingRounds : j <= i

\* The answer the replies call for.
AnswerIsDue(answer) ==
    IF ~PyTruthy(doc.openai_api_key) THEN answer = NoKeyAnswer
    ELSE IF EndingRounds = {} THEN answer = LimitAnswer
    ELSE IF doc.replies[FirstEnding].kind = "message" /\ doc.replies[FirstEnding].tool_calls = <<>>
    THEN answer = FinalAnswer(doc.replies[FirstEnding].content)
    ELSE answer.content[1] = Lit("Sorry, something went wrong: ")

\* C28: agent_chat makes at most ten completions, and it ends with a message
\* of role assistant: the first reply without tool calls, the tool-limit
\* message when all ten replies ask for tools, an apology when a
\* completion or a tool call raises.
C28_ChatTerminates ==
    ChatCalled =>
       /\ call.completions <= MaxRounds
       /\ call.max_rounds \in 0..MaxRounds
       /\ call.pc = "done" =>
             /\ out.role = "assistant"
             /\ AnswerIsDue(out)

\* The places of the conversation that agent_chat appended.
Appended == (1 + Len(doc.messages) + 1)..Len(call.all_messages)

IsToolRequest(m) == m.role = "assistant" /\ HasKey(m, "tool_calls")

\* The tool calls of the request at place i are answered in order by the
\* messages that follow it, as far as the conversation goes, and no further
\* tool message follows them.
AnsweredInOrder(all_messages, i, tool_calls) ==
    /\ \A k \in 1..Len(tool_calls) :
          i + k <= Len(all_messages) =>
             /\ all_messages[i + k].role = "tool"
             /\ all_messages[i + k].tool_call_id = tool_calls[k].id
    /\ i + Len(tool_calls) < Len(all_messages) =>
          all_messages[i + Len(tool_calls) + 1].role # "tool"

\* The tool message at place i answers a request appended before it.
WasRequested(all_messages, i) ==
    \E a \in Appended :
       /\ a < i
       /\ IsToolRequest(all_messages[a])
       /\ i - a <= Len(all_messages[a].tool_calls)

\* C29: in every state of the conversation the system message is first;
\* every assistant message with tool calls that agent_chat appended is
\* followed by the tool messages of its calls, one for each call, with the
\* call's id and in the order of the calls, all of them before the next
\* completion; every tool message agent_chat appended answers such a request.
C29_ToolMessagesFollowCalls ==
    ChatCalled /\ call.all_messages # <<>> =>
       /\ call.all_messages[1].role = "system"
       /\ \A i \in Appended :
             /\ call.all_messages[i].role \in {"assistant", "tool"}
             /\ IsToolRequest(call.all_messages[i]) =>
                   /\ AnsweredInOrder(call.all_messages, i, call.all_messages[i].tool_calls)
                   /\ call.pc = "loop" =>
                         i + Len(call.all_messages[i].tool_calls) <= Len(call.all_messages)
             /\ call.all_messages[i].role = "tool" => WasRequested(call.all_messages, i)

\* The loop is about to ask for the next completion, after a round of two
\* tool calls and a round of three, two of them with the same id.
C29_Witness ==
    /\ ChatCalled /\ call.pc = "loop" /\ call.max_rounds > 0
    /\ \E i \in Appended :
          /\ IsToolRequest(call.all_messages[i])
          /\ Len(call.all_messages[i].tool_calls) = 3
          /\ i + 3 = Len(call.all_messages)
          /\ call.all_messages[i + 2].tool_call_id = call.all_messages[i + 1].tool_call_id

====
